---- MODULE Spec2Model ----
(***************************************************************************)
(* auto-intersphinx: the version-aware catalog resolution engine.          *)
(*                                                                         *)
(* A Python dict is modelled as a sequence of [k, v] records with distinct *)
(* keys (dicts keep insertion order, and the order decides which of two    *)
(* colliding keys survives).  None is the string "None"; a raised KeyError *)
(* is the string "KeyError".                                               *)
(***************************************************************************)
EXTENDS Integers, Naturals, Sequences, FiniteSets, TLC

VARIABLES
    versions,       \* _prepare_versions: the argument
    retval,         \* _prepare_versions: the returned dictionary
    phase,          \* "input" before the call, "done" after it
    user_catalog,   \* Catalog._data of the (user) catalog
    user_lookup,    \* the LookupCatalog over it: _version_map, _package_map
    snapshot,       \* what every get() returned when user_lookup was last reset
    got,            \* the last get() call: its arguments and its result
    updates,        \* number of update_versions_from_* calls so far
    op,             \* the last operation on the catalog: arguments, result, queries
    m,              \* config.intersphinx_mapping: name -> <<addr, objects_inv>>
    log,            \* the records handed to the logger, in order
    call,           \* the last _add_index call: arguments, mapping before, records
    builtin_catalog,            \* the catalog shipped with the package
    builtin_lookup,             \* the LookupCatalog over it
    auto_intersphinx_catalog,   \* config.auto_intersphinx_catalog: the path, "" when unset
    file,           \* the user catalog file
    backup,         \* its sibling backup file
    packages,       \* config.auto_intersphinx_packages
    idx,            \* position of the for loop in packages
    pc,             \* where populate_intersphinx_mapping stands
    start,          \* intersphinx_mapping when the loop took its latest package
    hist            \* the stages consulted so far, with what each yielded

expandVars == <<versions, retval, phase>>

lookupVars == <<user_catalog, user_lookup, snapshot, got, updates, op>>

probeVars == <<snapshot, got, updates, op>>

mappingVars == <<m, log, call>>

driverVars == <<builtin_catalog, builtin_lookup, auto_intersphinx_catalog, file,
                backup, packages, idx, pc, start, hist>>

vars == <<versions, retval, phase, user_catalog, user_lookup, snapshot, got,
          updates, op, m, log, call, builtin_catalog, builtin_lookup,
          auto_intersphinx_catalog, file, backup, packages, idx, pc, start,
          hist>>

None == "None"
KeyError == "KeyError"

----------------------------------------------------------------------------
(* dict operations *)

DictKeys(d) == {d[j].k : j \in DOMAIN d}

DictHas(d, key) == \E j \in DOMAIN d : d[j].k = key

\* d[key]
DictGet(d, key) == d[CHOOSE j \in DOMAIN d : d[j].k = key].v

\* d.get(key, default)
DictGetDefault(d, key, default) == IF DictHas(d, key) THEN DictGet(d, key) ELSE default

\* d[key] = value: an existing key keeps its position, a new one is appended
DictSet(d, key, value) ==
    IF DictHas(d, key)
    THEN [j \in DOMAIN d |-> IF d[j].k = key THEN [k |-> key, v |-> value] ELSE d[j]]
    ELSE Append(d, [k |-> key, v |-> value])

\* d.update(e)
RECURSIVE DictUpdate(_, _)
DictUpdate(d, e) ==
    IF e = <<>> THEN d
    ELSE DictUpdate(DictSet(d, e[1].k, e[1].v), Tail(e))

----------------------------------------------------------------------------
(* packaging.version, over the labels of the model *)

\* v.replace(".x", "")
ReplaceDotX(label) ==
    CASE label = "1.2.x" -> "1.2"
      [] OTHER -> label

\* ".x" in label
HasDotX(label) == label = "1.2.x"

\* what _string2version returns for a label Version() rejects (None), kept a
\* record so that it compares with the parsed versions
NoVersion == [release |-> <<>>, stage |-> 0, public |-> "None"]

\* packaging.version.Version(s): release tuple, stage (0 dev-release,
\* 1 pre-release, 2 final release) and the public string; NoVersion stands
\* for InvalidVersion
Version(s) ==
    CASE s = "1.0"      -> [release |-> <<1, 0>>,    stage |-> 2, public |-> "1.0"]
      [] s = "1.0.0"    -> [release |-> <<1, 0, 0>>, stage |-> 2, public |-> "1.0.0"]
      [] s = "1.2"      -> [release |-> <<1, 2>>,    stage |-> 2, public |-> "1.2"]
      [] s = "v2.0"     -> [release |-> <<2, 0>>,    stage |-> 2, public |-> "2.0"]
      [] s = "2.0"      -> [release |-> <<2, 0>>,    stage |-> 2, public |-> "2.0"]
      [] s = "2.1rc1"   -> [release |-> <<2, 1>>,    stage |-> 1, public |-> "2.1rc1"]
      [] s = "2.2.dev1" -> [release |-> <<2, 2>>,    stage |-> 0, public |-> "2.2.dev1"]
      [] OTHER -> NoVersion

\* the release tuple without its trailing zeros, as Version's comparison key has it
RECURSIVE StripZeros(_)
StripZeros(r) ==
    IF r # <<>> /\ r[Len(r)] = 0 THEN StripZeros(SubSeq(r, 1, Len(r) - 1)) ELSE r

\* tuple comparison a < b
RECURSIVE TupleLess(_, _)
TupleLess(a, b) ==
    IF b = <<>> THEN FALSE
    ELSE IF a = <<>> THEN TRUE
    ELSE IF a[1] # b[1] THEN a[1] < b[1]
    ELSE TupleLess(Tail(a), Tail(b))

\* Version.__eq__ (and __hash__): equality of the comparison keys
VersionEq(a, b) ==
    /\ a # NoVersion /\ b # NoVersion
    /\ StripZeros(a.release) = StripZeros(b.release)
    /\ a.stage = b.stage

\* Version.__lt__
VersionLess(a, b) ==
    \/ TupleLess(StripZeros(a.release), StripZeros(b.release))
    \/ /\ StripZeros(a.release) = StripZeros(b.release)
       /\ a.stage < b.stage

\* is_prerelease that misses the release candidates
is_prerelease_DevOnly(v) == v.stage = 0

is_prerelease(v) == v.stage < 2

is_devrelease(v) == v.stage = 0

_string2version(v) == Version(ReplaceDotX(v))

----------------------------------------------------------------------------
(* _prepare_versions *)

\* {key(k): k for k in labels}, from the [k |-> key(label), v |-> label] pairs in
\* the order of the labels: of two labels with equal keys the dict keeps the
\* first key object and the last label
KeyEq(a, b) == IF a = NoVersion \/ b = NoVersion THEN a = b ELSE VersionEq(a, b)

RECURSIVE BuildVersionMap(_, _)
BuildVersionMap(acc, pairs) ==
    IF pairs = <<>> THEN acc
    ELSE LET hit == {j \in DOMAIN acc : KeyEq(acc[j].k, pairs[1].k)}
             nxt == IF hit = {}
                    THEN Append(acc, pairs[1])
                    ELSE [j \in DOMAIN acc |->
                            IF j \in hit THEN [k |-> acc[j].k, v |-> pairs[1].v]
                            ELSE acc[j]]
         IN  BuildVersionMap(nxt, Tail(pairs))

\* sorted() taken as descending
RECURSIVE SortEntries_Descending(_)
SortEntries_Descending(s) ==
    IF s = {} THEN <<>>
    ELSE LET most == CHOOSE e \in s : \A f \in s \ {e} : VersionLess(f.k, e.k)
         IN  <<most>> \o SortEntries_Descending(s \ {most})

\* sorted(): the version-map entries with a parsed key, ascending
RECURSIVE SortEntries(_)
SortEntries(s) ==
    IF s = {} THEN <<>>
    ELSE LET least == CHOOSE e \in s : \A f \in s \ {e} : VersionLess(e.k, f.k)
         IN  <<least>> \o SortEntries(s \ {least})

Reverse(s) == [j \in 1..Len(s) |-> s[Len(s) + 1 - j]]

\* the loop of lines 597-604 over reversed(sorted_versions)
RECURSIVE FillVersions(_, _, _)
FillVersions(acc, todo, vs) ==
    IF todo = <<>> THEN acc
    ELSE LET label == todo[1].v
             url   == DictGet(vs, label)
             one   == DictSet(acc, label, url)
             two   == IF HasDotX(label)
                      THEN DictSet(one, ReplaceDotX(label), url)
                      ELSE IF todo[1].k.public # label
                           THEN DictSet(one, todo[1].k.public, url)
                           ELSE one
         IN  FillVersions(two, Tail(todo), vs)

\* a or b or c ...: the first operand that is neither missing nor empty
FirstTruthy(vs, keys) ==
    LET hits == {j \in DOMAIN keys :
                    DictHas(vs, keys[j]) /\ DictGet(vs, keys[j]) # ""}
    IN  IF hits = {} THEN ""
        ELSE DictGet(vs, keys[CHOOSE j \in hits : \A h \in hits : j <= h])

\* the chain of lines 608-614 with "stable" ahead of "latest"
LatestFallback_StableFirst == <<"stable", "latest", "master", "main">>

\* lines 608-614: the labels retval["latest"] falls back to, in order
LatestFallback == <<"latest", "stable", "master", "main">>

\* the chain of lines 615-621 with "latest" ahead of "stable"
StableFallback_LatestFirst == <<"latest", "stable", "master", "main">>

\* lines 615-621: the labels retval["stable"] falls back to, in order
StableFallback == <<"stable", "latest", "master", "main">>

_prepare_versions(vs) ==
    IF vs = <<>> THEN vs
    ELSE
      LET version_map     == BuildVersionMap(<<>>,
                                 [j \in DOMAIN vs |->
                                    [k |-> _string2version(vs[j].k), v |-> vs[j].k]])
          sorted_versions == SortEntries({version_map[j] : j \in
                                 {h \in DOMAIN version_map : version_map[h].k # NoVersion}})
      IN
        IF sorted_versions # <<>>
        THEN
          LET latest == sorted_versions[Len(sorted_versions)]
              stable_versions == SelectSeq(sorted_versions,
                                   LAMBDA e : ~(is_prerelease(e.k) \/ is_devrelease(e.k)))
              stable == IF stable_versions # <<>>
                        THEN stable_versions[Len(stable_versions)]
                        ELSE latest
              r1 == DictSet(<<>>, "latest",
                            DictGetDefault(vs, "latest", DictGet(vs, latest.v)))
              r2 == DictSet(r1, "stable",
                            DictGetDefault(vs, "stable", DictGet(vs, stable.v)))
          IN  FillVersions(r2, Reverse(sorted_versions), vs)
        ELSE
          LET r1 == DictSet(<<>>, "latest", FirstTruthy(vs, LatestFallback))
          IN  DictSet(r1, "stable", FirstTruthy(vs, StableFallback))

----------------------------------------------------------------------------
(* _reorder_versions *)

protected == <<"latest", "main", "master", "stable">>

\* PEP440_RE.match(k): the pattern is the one Version() parses with
PEP440_RE_match(k) == Version(k) # NoVersion

\* retval[key] = vdict[key] for each key of keys, in order, that vdict has
RECURSIVE CopyKeys(_, _, _)
CopyKeys(acc, keys, vdict) ==
    IF keys = <<>> THEN acc
    ELSE CopyKeys(IF DictHas(vdict, keys[1])
                  THEN DictSet(acc, keys[1], DictGet(vdict, keys[1]))
                  ELSE acc,
                  Tail(keys), vdict)

\* _reorder_versions without the final retval.update(...) of line 77
_reorder_versions_NoRest(vdict) ==
    LET isProtected(k) == \E j \in DOMAIN protected : protected[j] = k
        first    == CopyKeys(<<>>, protected, vdict)
        releases == SelectSeq(vdict,
                              LAMBDA e : ~isProtected(e.k) /\ PEP440_RE_match(e.k))
        version_map == BuildVersionMap(<<>>,
                           [j \in DOMAIN releases |->
                              [k |-> Version(releases[j].k), v |-> releases[j].k]])
        ordered  == Reverse(SortEntries({version_map[j] : j \in DOMAIN version_map}))
    IN  CopyKeys(first, [j \in DOMAIN ordered |-> ordered[j].v], vdict)

_reorder_versions(vdict) ==
    LET isProtected(k) == \E j \in DOMAIN protected : protected[j] = k
        first    == CopyKeys(<<>>, protected, vdict)
        releases == SelectSeq(vdict,
                              LAMBDA e : ~isProtected(e.k) /\ PEP440_RE_match(e.k))
        version_map == BuildVersionMap(<<>>,
                           [j \in DOMAIN releases |->
                              [k |-> Version(releases[j].k), v |-> releases[j].k]])
        ordered  == Reverse(SortEntries({version_map[j] : j \in DOMAIN version_map}))
        second   == CopyKeys(first, [j \in DOMAIN ordered |-> ordered[j].v], vdict)
    IN  DictUpdate(second, SelectSeq(vdict, LAMBDA e : ~DictHas(second, e.k)))

----------------------------------------------------------------------------
(* Catalog *)

\* the record _ensure_defaults creates
EmptyRecord == [versions |-> <<>>, sources |-> <<>>]

\* _ensure_defaults putting an empty record in place of the package's
_ensure_defaults_Resets(cat, pkg) == DictSet(cat, pkg, EmptyRecord)

\* setdefault(pkg, ...), then setdefault of "versions" and of "sources" in the
\* record: a record is a dict that can lack either key
_ensure_defaults(cat, pkg) ==
    IF ~DictHas(cat, pkg) THEN DictSet(cat, pkg, EmptyRecord)
    ELSE LET rec == DictGet(cat, pkg)
         IN  DictSet(cat, pkg,
                 [versions |-> IF "versions" \in DOMAIN rec THEN rec.versions ELSE <<>>,
                  sources  |-> IF "sources" \in DOMAIN rec THEN rec.sources ELSE <<>>])

\* name or pkg
NameOr(name, pkg) == IF name = None \/ name = "" THEN pkg ELSE name

\* the body of update_versions_from_* recording pkg as the source's name
UpdateVersionsFrom_RecordsPkg(cat, source, pkg, name, fetched) ==
    LET c1  == _ensure_defaults(cat, pkg)
        rec == DictGet(c1, pkg)
    IN  IF fetched # <<>>
        THEN DictSet(c1, pkg,
                 [versions |-> _reorder_versions(DictUpdate(rec.versions, fetched)),
                  sources  |-> DictSet(rec.sources, source, pkg)])
        ELSE c1

\* the body of update_versions_from_* storing the fetched versions in place
\* of the package's
UpdateVersionsFrom_Replaces(cat, source, pkg, name, fetched) ==
    LET c1  == _ensure_defaults(cat, pkg)
        rec == DictGet(c1, pkg)
    IN  IF fetched # <<>>
        THEN DictSet(c1, pkg,
                 [versions |-> _reorder_versions(fetched),
                  sources  |-> DictSet(rec.sources, source, NameOr(name, pkg))])
        ELSE c1

\* the body the three update_versions_from_* methods share; fetched is what
\* the source's docurls_from_* function returned for NameOr(name, pkg)
UpdateVersionsFrom(cat, source, pkg, name, fetched) ==
    LET c1  == _ensure_defaults(cat, pkg)
        rec == DictGet(c1, pkg)
    IN  IF fetched # <<>>
        THEN DictSet(c1, pkg,
                 [versions |-> _reorder_versions(DictUpdate(rec.versions, fetched)),
                  sources  |-> DictSet(rec.sources, source, NameOr(name, pkg))])
        ELSE c1

update_versions_from_environment(cat, pkg, name, fetched) ==
    UpdateVersionsFrom(cat, "environment", pkg, name, fetched)

update_versions_from_rtd(cat, pkg, name, fetched) ==
    UpdateVersionsFrom(cat, "readthedocs", pkg, name, fetched)

update_versions_from_pypi(cat, pkg, name, fetched) ==
    UpdateVersionsFrom(cat, "pypi", pkg, name, fetched)

\* the name looked up without names: every package under its own name
NameFor_OwnName(names, action, pkg) == pkg

\* names.get(action, {}).get(pkg, pkg): None when names holds the skip marker
NameFor(names, action, pkg) ==
    DictGetDefault(DictGetDefault(names, action, <<>>), pkg, pkg)

\* the branch of update_versions taken for action
UpdateOne(cat, action, pkg, name, fetched) ==
    CASE action = "environment" -> update_versions_from_environment(cat, pkg, name, fetched)
      [] action = "readthedocs" -> update_versions_from_rtd(cat, pkg, name, fetched)
      [] action = "pypi"        -> update_versions_from_pypi(cat, pkg, name, fetched)

\* a run of update_versions so far: the catalog, the fetches made, in order,
\* and the exception that ended it, if any
Run(cat, queries, raised) == [cat |-> cat, queries |-> queries, raised |-> raised]

\* the inner loop of update_versions, over the sources of order, for pkg;
\* outcome[source] is what the source's fetcher does when called
RECURSIVE UpdatePackage(_, _, _, _, _, _)
UpdatePackage(run, pkg, order, names, keep_going, outcome) ==
    IF order = <<>> \/ run.raised # None THEN run
    ELSE LET action == order[1]
             name   == NameFor(names, action, pkg)
             asked  == Append(run.queries,
                              [source |-> action, pkg |-> pkg, name |-> NameOr(name, pkg)])
         IN  IF name = None
             THEN UpdatePackage(run, pkg, Tail(order), names, keep_going, outcome)
             ELSE IF outcome[action].raises
             THEN Run(_ensure_defaults(run.cat, pkg), asked, "RequestException")
             ELSE LET fetched == outcome[action].urls
                      after   == Run(UpdateOne(run.cat, action, pkg, name, fetched),
                                     asked, None)
                  IN  IF fetched # <<>> /\ ~keep_going
                      THEN after
                      ELSE UpdatePackage(after, pkg, Tail(order), names, keep_going, outcome)

\* the outer loop of update_versions, over pkgs
RECURSIVE UpdatePackages(_, _, _, _, _, _)
UpdatePackages(run, pkgs, order, names, keep_going, outcome) ==
    IF pkgs = <<>> \/ run.raised # None THEN run
    ELSE UpdatePackages(UpdatePackage(run, pkgs[1], order, names, keep_going, outcome),
                        Tail(pkgs), order, names, keep_going, outcome)

update_versions(cat, pkgs, order, names, keep_going, outcome) ==
    UpdatePackages(Run(cat, <<>>, None), pkgs, order, names, keep_going, outcome)

\* the default value of order
DefaultOrder == <<"environment", "readthedocs", "pypi">>

\* names[src][pkg] = info["sources"].get(src), for every package and source
SelfUpdateNames(cat) ==
    [s \in DOMAIN DefaultOrder |->
        [k |-> DefaultOrder[s],
         v |-> [j \in DOMAIN cat |->
                  [k |-> cat[j].k,
                   v |-> DictGetDefault(cat[j].v.sources, DefaultOrder[s], None)]]]]

\* info["sources"] of a record without that key raises KeyError before any
\* update is made
self_update(cat, outcome) ==
    IF \E j \in DOMAIN cat : "sources" \notin DOMAIN cat[j].v
    THEN Run(cat, <<>>, KeyError)
    ELSE update_versions(cat, [j \in DOMAIN cat |-> cat[j].k], DefaultOrder, SelfUpdateNames(cat),
                         FALSE, outcome)

----------------------------------------------------------------------------
(* LookupCatalog *)

\* self._package_map[pkg] = pkg, then one entry per value of the sources
RECURSIVE PackageMap(_, _)
PackageMap(acc, cat) ==
    IF cat = <<>> THEN acc
    ELSE LET pkg     == cat[1].k
             sources == cat[1].v.sources
             aliases == [j \in DOMAIN sources |-> [k |-> sources[j].v, v |-> pkg]]
         IN  PackageMap(DictUpdate(DictSet(acc, pkg, pkg), aliases), Tail(cat))

\* reset(): shared names the packages whose _version_map entry is the very
\* dict object of the catalog (_prepare_versions returns an empty argument
\* itself, not a copy)
LookupReset(cat) ==
    [_version_map |-> [j \in DOMAIN cat |->
                         [k |-> cat[j].k, v |-> _prepare_versions(cat[j].v.versions)]],
     _package_map |-> PackageMap(<<>>, cat),
     shared       |-> {cat[j].k : j \in {h \in DOMAIN cat : cat[h].v.versions = <<>>}}]

\* the view after update_versions_from_*(pkg) found fetched, without a
\* reset(): versions.update(fetched) writes into the dict object a shared
\* entry still is, then the catalog rebinds its key to the reordered copy
LookupAfterUpdate(lk, pkg, fetched) ==
    IF fetched # <<>> /\ pkg \in lk.shared
    THEN [lk EXCEPT
            !._version_map = DictSet(@, pkg, DictUpdate(DictGet(@, pkg), fetched)),
            !.shared = @ \ {pkg}]
    ELSE lk

\* get(pkg, version, default)
LookupGet(lk, pkg, version, default) ==
    IF ~DictHas(lk._package_map, pkg) THEN default
    ELSE IF ~DictHas(lk._version_map, pkg) THEN KeyError
    ELSE IF ~DictHas(DictGet(lk._version_map, pkg), version) THEN default
    ELSE LET target == DictGet(lk._version_map, DictGet(lk._package_map, pkg))
         IN  IF DictHas(target, version) THEN DictGet(target, version) ELSE KeyError

----------------------------------------------------------------------------
(* _add_index *)

\* a record handed to the logger
LogRecord(level, msg, name, detail) ==
    [level |-> level, msg |-> msg, name |-> name, detail |-> detail]

\* objects_inv if objects_inv else "objects.inv"
InventoryFile(objects_inv) ==
    IF objects_inv # None /\ objects_inv # "" THEN objects_inv ELSE "objects.inv"

\* _add_index that lets the new value replace the registered one
_add_index_Overwrite(mapping, name, addr, objects_inv) ==
    IF ~DictHas(mapping, name)
    THEN [mapping |-> DictSet(mapping, name, <<addr, objects_inv>>), emitted |-> <<>>]
    ELSE IF DictGet(mapping, name)[1] = addr /\ DictGet(mapping, name)[2] = objects_inv
    THEN [mapping |-> mapping,
          emitted |-> <<LogRecord("info", "repeated setting", <<name>>, <<>>)>>]
    ELSE [mapping |-> DictSet(mapping, name, <<addr, objects_inv>>),
          emitted |-> <<LogRecord("error", "ignoring reset", <<name>>,
                          <<DictGet(mapping, name)[1],
                            InventoryFile(DictGet(mapping, name)[2]),
                            addr, InventoryFile(objects_inv)>>)>>]

\* the mapping after the call and the records it emitted; every address of the
\* model ends in "/", so curr and newval are the URL followed by the file name
_add_index(mapping, name, addr, objects_inv) ==
    IF ~DictHas(mapping, name)
    THEN [mapping |-> DictSet(mapping, name, <<addr, objects_inv>>), emitted |-> <<>>]
    ELSE IF DictGet(mapping, name)[1] = addr /\ DictGet(mapping, name)[2] = objects_inv
    THEN [mapping |-> mapping,
          emitted |-> <<LogRecord("info", "repeated setting", <<name>>, <<>>)>>]
    ELSE [mapping |-> mapping,
          emitted |-> <<LogRecord("error", "ignoring reset", <<name>>,
                          <<DictGet(mapping, name)[1],
                            InventoryFile(DictGet(mapping, name)[2]),
                            addr, InventoryFile(objects_inv)>>)>>]

----------------------------------------------------------------------------
(* Catalog.dumps / dump / loads *)

\* a token of JSON text: a punctuation mark or a string literal; the
\* indentation and the line breaks of indent=2, which json.loads skips, are
\* left out
Token(t, s) == [t |-> t, s |-> s]

Punct(c) == Token(c, "")

String(s) == Token("string", s)

\* a package's record as the dict it is: the keys it has, "versions" first
\* as _ensure_defaults inserts them
RecordItems(rec) ==
    (IF "versions" \in DOMAIN rec THEN <<[k |-> "versions", v |-> rec.versions]>> ELSE <<>>)
    \o (IF "sources" \in DOMAIN rec THEN <<[k |-> "sources", v |-> rec.sources]>> ELSE <<>>)

\* self._data as nested dicts
CatalogItems(cat) == [j \in DOMAIN cat |-> [k |-> cat[j].k, v |-> RecordItems(cat[j].v)]]

\* json.dumps of a value that is a string (depth 0) or dicts nested depth
\* deep: the items of a dict are written in its order
RECURSIVE Encode(_, _)
RECURSIVE EncodeItems(_, _)
Encode(value, depth) ==
    IF depth = 0 THEN <<String(value)>>
    ELSE <<Punct("{")>> \o EncodeItems(value, depth) \o <<Punct("}")>>

EncodeItems(d, depth) ==
    IF Len(d) = 0 THEN <<>>
    ELSE <<String(d[1].k), Punct(":")>> \o Encode(d[1].v, depth - 1)
         \o (IF Len(d) > 1 THEN <<Punct(",")>> ELSE <<>>)
         \o EncodeItems(Tail(d), depth)

\* json.loads of well-formed text: the value the text starts with and the
\* tokens after it; an object becomes a dict in the order of its items, a
\* repeated key keeping its place and its last value
RECURSIVE Decode(_)
RECURSIVE DecodeItems(_, _)
Decode(toks) ==
    IF toks[1].t = "string" THEN [value |-> toks[1].s, rest |-> Tail(toks)]
    ELSE IF toks[2].t = "}" THEN [value |-> <<>>, rest |-> Tail(Tail(toks))]
    ELSE DecodeItems(<<>>, Tail(toks))

DecodeItems(acc, toks) ==
    LET item == Decode(Tail(Tail(toks)))
        nxt  == DictSet(acc, toks[1].s, item.value)
    IN  IF item.rest[1].t = ","
        THEN DecodeItems(nxt, Tail(item.rest))
        ELSE [value |-> nxt, rest |-> Tail(item.rest)]

\* the record of a package from the dict parsed for it
AsRecord(d) == [n \in DictKeys(d) |-> DictGet(d, n)]

\* json.dumps(self._data, indent=2): the text of the data, without a newline
dumps(cat) == [data |-> Encode(CatalogItems(cat), 3), newline |-> FALSE]

\* what dump() writes: the same text followed by "\n"
DumpedText(cat) == [data |-> Encode(CatalogItems(cat), 3), newline |-> TRUE]

\* json.loads(contents): a trailing newline is ignored
loads(text) ==
    LET items == Decode(text.data).value
    IN  [j \in DOMAIN items |-> [k |-> items[j].k, v |-> AsRecord(items[j].v)]]

NoFile == [exists |-> FALSE, text |-> dumps(<<>>)]

FileWith(text) == [exists |-> TRUE, text |-> text]

\* path.suffix of the paths of the model
suffix(path) == IF path = "catalog.json" THEN ".json" ELSE ""

\* path.with_suffix(s) raises ValueError unless s is empty or starts with "."
\* followed by something; here s is path.suffix + "~"
with_suffix_raises(path) == suffix(path) = ""

\* dump(path): an existing file is copied to the backup path, then the text
\* is written; f and b are the two files before the call. Computing the
\* backup path raises for a path without a suffix, before anything is done
dump(cat, path, f, b) ==
    IF f.exists /\ with_suffix_raises(path)
    THEN [file |-> f, backup |-> b, raised |-> "ValueError"]
    ELSE [file   |-> FileWith(DumpedText(cat)),
          backup |-> IF f.exists THEN f ELSE b,
          raised |-> None]

\* current_contents != user_catalog.dumps(), current_contents being "" when
\* the file does not exist (dumps() never returns "")
ContentsDiffer(f, cat) == ~f.exists \/ f.text # dumps(cat)

----------------------------------------------------------------------------
(* the inputs: bounds and the sets the specifications draw from *)

MaxLen == 3

Labels == {"latest", "stable", "main", "master", "devdocs",
           "1.0", "1.0.0", "1.2", "1.2.x", "v2.0", "2.1rc1", "2.2.dev1"}

URLs == {"https://a/", "https://b/"}

\* the dict of the labels ks, in that order, with the addresses us
DictOf(ks, us) == [j \in 1..Len(ks) |-> [k |-> ks[j], v |-> us[j]]]

\* a dict holds a key once
Distinct(ks) == \A a, b \in DOMAIN ks : a # b => ks[a] # ks[b]

MaxUpdates == 2

PackageNames == {"numpy", "flask"}

\* the name argument of update_versions_from_*: unset, or an external name
ExternalNames == {None, "np"}

Entry(label, url) == [k |-> label, v |-> url]

NumpyRecords ==
    {[versions |-> v, sources |-> s] :
        v \in {<<>>,
               <<Entry("stable", "https://a/")>>,
               <<Entry("latest", "https://b/"), Entry("1.0", "https://a/")>>},
        s \in {<<>>, <<Entry("pypi", "np")>>, <<Entry("environment", "numpy")>>}}

FlaskRecords ==
    {[versions |-> <<Entry("1.2.x", "https://b/")>>, sources |-> s] :
        s \in {<<>>, <<Entry("readthedocs", "np")>>, <<Entry("readthedocs", "numpy")>>}}

\* the catalogs a file can hold
Catalogs ==
    {<<>>}
    \cup {<<Entry("numpy", n)>> : n \in NumpyRecords}
    \cup {<<Entry("numpy", n), Entry("flask", f)>> : n \in NumpyRecords, f \in FlaskRecords}
    \cup {<<Entry("flask", f), Entry("numpy", n)>> : n \in NumpyRecords, f \in FlaskRecords}

\* what docurls_from_environment / _rtd / _pypi can return
FetchResults(source) ==
    CASE source = "environment" ->
            {<<>>, <<Entry("1.0", "https://c/")>>}
      [] source = "readthedocs" ->
            {<<>>, <<Entry("latest", "https://c/"), Entry("stable", "https://d/")>>}
      [] source = "pypi" ->
            {<<>>, <<Entry("1.2", "https://c/")>>}

QueryNames == {"numpy", "flask", "np"}

QueryVersions == {"stable", "latest", "1.0"}

\* the versions the Get action asks for
GetVersions == {"stable", "1.0"}

Defaults == {None, "default"}

\* every get(name, version) of the view, with the default default
AllGets(lk) ==
    [n \in QueryNames |-> [v \in QueryVersions |-> LookupGet(lk, n, v, None)]]

MaxPackages == 2

MaxCalls == 3

\* no operation on the catalog yet
NoOp == [name |-> "none", returned |-> None, queries |-> <<>>]

NoCall == [n |-> 0, name |-> "", addr |-> "", objects_inv |-> None,
           before |-> <<>>, emitted |-> <<>>]

\* intersphinx_mapping as the caller's conf.py leaves it
InitialMappings ==
    {<<>>,
     <<Entry("numpy", <<"https://a/", None>>)>>,
     <<Entry("numpy", <<"https://b/", "numpy.inv">>)>>}

Record(vs, srcs) == [versions |-> vs, sources |-> srcs]

\* the paths config.auto_intersphinx_catalog or dump() can be given
CatalogPaths == {"catalog.json", "catalog"}

\* user catalog files: written by dump(), and one written by hand
UserFiles ==
    {NoFile,
     FileWith(DumpedText(<<>>)),
     FileWith(DumpedText(<<Entry("numpy",
         Record(<<Entry("stable", "https://a/")>>, <<>>))>>)),
     FileWith(DumpedText(<<Entry("numpy",
         Record(<<Entry("stable", "https://a/")>>, <<Entry("pypi", "np")>>))>>)),
     FileWith(dumps(<<Entry("numpy",
         Record(<<Entry("1.0", "https://b/")>>, <<>>))>>))}

BuiltinCatalogs ==
    {<<Entry("numpy", Record(<<Entry("stable", "https://b/")>>, <<>>))>>,
     <<Entry("numpy", Record(<<Entry("stable", "https://a/"),
                               Entry("1.2.x", "https://b/")>>, <<>>)),
       Entry("flask", Record(<<Entry("latest", "https://b/")>>, <<>>))>>,
     <<Entry("flask", Record(<<Entry("devdocs", "https://a/")>>, <<>>))>>}

\* entries of auto_intersphinx_packages: a name, or a (name, version) pair
Requests ==
    {[tuple |-> FALSE, p |-> "numpy", v |-> None],
     [tuple |-> TRUE,  p |-> "numpy", v |-> "1.0"],
     [tuple |-> TRUE,  p |-> "numpy", v |-> None],
     [tuple |-> FALSE, p |-> "np",    v |-> None],
     [tuple |-> FALSE, p |-> "flask", v |-> None]}

PackageLists == UNION {[1..n -> Requests] : n \in 0..MaxPackages}

Sources == {"environment", "readthedocs", "pypi"}

\* the catalogs the operations of Catalog start from: loaded from a file or
\* filled through __setitem__, so a record can lack "versions" or "sources"
CatalogStates ==
    {<<>>,
     <<Entry("numpy", Record(<<Entry("stable", "https://a/")>>, <<>>))>>,
     <<Entry("numpy", Record(<<Entry("latest", "https://b/"), Entry("1.0.0", "https://a/")>>,
                             <<Entry("pypi", "np")>>)),
       Entry("flask", Record(<<Entry("1.2.x", "https://b/")>>,
                             <<Entry("readthedocs", "flask")>>))>>,
     <<Entry("numpy", [versions |-> <<Entry("stable", "https://a/")>>])>>,
     <<Entry("flask", [sources |-> <<Entry("environment", "np")>>])>>}

\* the pkgs argument of update_versions
PkgLists == {<<"numpy">>, <<"flask", "numpy">>}

\* its order argument
Orders == {<<"environment", "readthedocs", "pypi">>,
           <<"pypi", "environment">>,
           <<"readthedocs", "pypi", "environment">>}

\* its names argument: source -> package -> external name, None to skip
NamesArgs ==
    {<<>>,
     <<Entry("readthedocs", <<Entry("numpy", None)>>)>>,
     <<Entry("pypi", <<Entry("numpy", "np")>>),
       Entry("environment", <<Entry("flask", None), Entry("numpy", None)>>)>>}

\* the values of the variables a specification does not use
ExpandIdle == versions = <<>> /\ retval = <<>> /\ phase = "idle"

LookupIdle ==
    /\ user_catalog = <<>>
    /\ user_lookup = [_version_map |-> <<>>, _package_map |-> <<>>, shared |-> {}]
    /\ snapshot = <<>>
    /\ got = <<>>
    /\ updates = 0
    /\ op = NoOp

DriverIdle ==
    /\ builtin_catalog = <<>>
    /\ builtin_lookup = LookupReset(<<>>)
    /\ auto_intersphinx_catalog = ""
    /\ file = NoFile
    /\ backup = NoFile
    /\ packages = <<>>
    /\ idx = 0
    /\ pc = "idle"
    /\ start = <<>>
    /\ hist = <<>>

MappingIdle == m = <<>> /\ log = <<>> /\ call = NoCall

ProbeIdle == snapshot = <<>> /\ got = <<>> /\ updates = 0 /\ op = NoOp

----------------------------------------------------------------------------
(* populate_intersphinx_mapping *)

\* p, v = k if isinstance(k, (tuple, list)) else (k, "stable")
Unpack(k) == IF k.tuple THEN [p |-> k.p, v |-> k.v] ELSE [p |-> k.p, v |-> "stable"]

\* the search protocol with readthedocs.org and pypi.org exchanged
NextStage_PypiFirst(stage) ==
    CASE stage = "user"        -> "builtin"
      [] stage = "builtin"     -> "environment"
      [] stage = "environment" -> "pypi"
      [] stage = "pypi"        -> "readthedocs"
      [] stage = "readthedocs" -> "unresolved"

\* where the code goes on after a stage that found no URL
NextStage(stage) ==
    CASE stage = "user"        -> "builtin"
      [] stage = "builtin"     -> "environment"
      [] stage = "environment" -> "readthedocs"
      [] stage = "readthedocs" -> "pypi"
      [] stage = "pypi"        -> "unresolved"

\* continue: the next package of the list, or the end of the loop
Continue ==
    /\ idx' = idx + 1
    /\ pc' = IF idx + 1 > Len(packages) THEN "save" ELSE "user"

\* the name an unresolved request is reported under
RequestName(k) == IF k.v # None THEN <<k.p, k.v>> ELSE <<k.p>>

\* what follows a lookup at a stage: a raised KeyError leaves the function, a
\* URL is registered and the loop continues, a miss logs and falls through
Settle(stage, k, addr, missed) ==
    /\ hist' = Append(hist, [request |-> idx, stage |-> stage, result |-> addr])
    /\ IF addr = KeyError
       THEN /\ pc' = "raised"
            /\ UNCHANGED <<m, log, call, idx>>
       ELSE IF addr # None
       THEN LET r == _add_index(m, k.p, addr, None)
            IN  /\ m' = r.mapping
                /\ log' = log \o r.emitted
                /\ call' = [n |-> call.n + 1, name |-> k.p, addr |-> addr,
                            objects_inv |-> None, before |-> m,
                            emitted |-> r.emitted]
                /\ Continue
       ELSE /\ log' = log \o missed
            /\ pc' = NextStage(stage)
            /\ UNCHANGED <<m, call, idx>>

\* the second stage reporting a miss also for a package the built-in catalog
\* does not have
BuiltinCatalogStage_AlwaysReports ==
    /\ pc = "builtin"
    /\ LET k    == Unpack(packages[idx])
           addr == LookupGet(builtin_lookup, k.p, k.v, None)
       IN  Settle("builtin", k, addr,
                  <<LogRecord("info", "version not in builtin catalog",
                              <<k.p, k.v>>, <<>>)>>)
    /\ UNCHANGED <<start, user_catalog, user_lookup, probeVars, expandVars,
                   builtin_catalog, builtin_lookup, auto_intersphinx_catalog,
                   file, backup, packages>>

\* the first stage reading the built-in view instead of the user's
UserCatalogStage_UsesBuiltin ==
    /\ pc = "user"
    /\ start' = m
    /\ LET k    == Unpack(packages[idx])
           addr == LookupGet(builtin_lookup, k.p, k.v, None)
       IN  Settle("user", k, addr,
                  IF DictHas(user_catalog, k.p)
                  THEN <<LogRecord("warning", "version not in user catalog",
                                   <<k.p, k.v>>, <<>>)>>
                  ELSE <<>>)
    /\ UNCHANGED <<user_catalog, user_lookup, probeVars, expandVars,
                   builtin_catalog, builtin_lookup, auto_intersphinx_catalog,
                   file, backup, packages>>

UserCatalogStage ==
    /\ pc = "user"
    /\ start' = m
    /\ LET k    == Unpack(packages[idx])
           addr == LookupGet(user_lookup, k.p, k.v, None)
       IN  Settle("user", k, addr,
                  IF DictHas(user_catalog, k.p)
                  THEN <<LogRecord("warning", "version not in user catalog",
                                   <<k.p, k.v>>, <<>>)>>
                  ELSE <<>>)
    /\ UNCHANGED <<user_catalog, user_lookup, probeVars, expandVars,
                   builtin_catalog, builtin_lookup, auto_intersphinx_catalog,
                   file, backup, packages>>

BuiltinCatalogStage ==
    /\ pc = "builtin"
    /\ LET k    == Unpack(packages[idx])
           addr == LookupGet(builtin_lookup, k.p, k.v, None)
       IN  Settle("builtin", k, addr,
                  IF DictHas(builtin_catalog, k.p)
                  THEN <<LogRecord("info", "version not in builtin catalog",
                                   <<k.p, k.v>>, <<>>)>>
                  ELSE <<>>)
    /\ UNCHANGED <<start, user_catalog, user_lookup, probeVars, expandVars,
                   builtin_catalog, builtin_lookup, auto_intersphinx_catalog,
                   file, backup, packages>>

\* a fetcher's call: the mapping it returns, or the exception that leaves it
Returns(urls) == [raises |-> FALSE, urls |-> urls]

Raises == [raises |-> TRUE, urls |-> <<>>]

\* docurls_from_environment and docurls_from_pypi probe objects.inv with
\* requests.head outside any handler of requests' exceptions;
\* docurls_from_rtd catches them
FetchOutcomes(source) ==
    {Returns(u) : u \in FetchResults(source)}
    \cup (IF source \in {"environment", "pypi"} THEN {Raises} ELSE {})

\* the body the three fetcher stages share: update the user catalog from
\* the source, reset the view, look the request up again
FetchStage(source, outcome, updated) ==
    LET k == Unpack(packages[idx])
    IN  IF outcome.raises
        THEN /\ user_catalog' = _ensure_defaults(user_catalog, k.p)
             /\ user_lookup' = user_lookup
             /\ hist' = Append(hist, [request |-> idx, stage |-> source,
                                      result |-> "RequestException"])
             /\ pc' = "raised"
             /\ UNCHANGED <<m, log, call, idx>>
        ELSE /\ user_catalog' = updated
             /\ user_lookup' = LookupReset(updated)
             /\ Settle(source, k, LookupGet(LookupReset(updated), k.p, k.v, None),
                       <<LogRecord("info", "not available", <<k.p>>, <<source>>)>>)

EnvironmentStage ==
    /\ pc = "environment"
    /\ \E outcome \in FetchOutcomes("environment") :
         FetchStage("environment", outcome,
                    update_versions_from_environment(
                        user_catalog, Unpack(packages[idx]).p, None, outcome.urls))
    /\ UNCHANGED <<start, probeVars, expandVars, builtin_catalog, builtin_lookup,
                   auto_intersphinx_catalog, file, backup, packages>>

ReadthedocsStage ==
    /\ pc = "readthedocs"
    /\ \E outcome \in FetchOutcomes("readthedocs") :
         FetchStage("readthedocs", outcome,
                    update_versions_from_rtd(
                        user_catalog, Unpack(packages[idx]).p, None, outcome.urls))
    /\ UNCHANGED <<start, probeVars, expandVars, builtin_catalog, builtin_lookup,
                   auto_intersphinx_catalog, file, backup, packages>>

PypiStage ==
    /\ pc = "pypi"
    /\ \E outcome \in FetchOutcomes("pypi") :
         FetchStage("pypi", outcome,
                    update_versions_from_pypi(
                        user_catalog, Unpack(packages[idx]).p, None, outcome.urls))
    /\ UNCHANGED <<start, probeVars, expandVars, builtin_catalog, builtin_lookup,
                   auto_intersphinx_catalog, file, backup, packages>>

\* lines 258-276: every stage missed
Unresolved ==
    /\ pc = "unresolved"
    /\ log' = Append(log, LogRecord("error", "cannot find catalog entry",
                                    RequestName(Unpack(packages[idx])), <<>>))
    /\ Continue
    /\ UNCHANGED <<start, m, call, hist, user_catalog, user_lookup, probeVars, expandVars,
                   builtin_catalog, builtin_lookup, auto_intersphinx_catalog,
                   file, backup, packages>>

\* lines 278-294: the user catalog is saved when a path is set, the catalog
\* is not empty and its text differs from the file's
SaveCatalog ==
    /\ pc = "save"
    /\ IF auto_intersphinx_catalog # "" /\ user_catalog # <<>>
          /\ ContentsDiffer(file, user_catalog)
       THEN LET d == dump(user_catalog, auto_intersphinx_catalog, file, backup)
            IN  /\ log' = Append(log, LogRecord("info", "recording entries", <<>>, <<>>))
                /\ backup' = d.backup
                /\ file' = d.file
                /\ pc' = IF d.raised = None THEN "done" ELSE "raised"
       ELSE /\ pc' = "done"
            /\ UNCHANGED <<log, backup, file>>
    /\ UNCHANGED <<start, m, call, hist, idx, user_catalog, user_lookup, probeVars,
                   expandVars, builtin_catalog, builtin_lookup,
                   auto_intersphinx_catalog, packages>>

----------------------------------------------------------------------------
(* populate_intersphinx_mapping: the specification *)

\* lines 144-160: the state in which the loop over the packages starts
Init ==
    /\ m \in InitialMappings
    /\ log = <<>>
    /\ call = NoCall
    /\ builtin_catalog \in BuiltinCatalogs
    /\ builtin_lookup = LookupReset(builtin_catalog)
    /\ auto_intersphinx_catalog \in CatalogPaths \cup {""}
    /\ file \in (IF auto_intersphinx_catalog # "" THEN UserFiles ELSE {NoFile})
    /\ backup = NoFile
    /\ user_catalog = (IF file.exists THEN loads(file.text) ELSE <<>>)
    /\ user_lookup = LookupReset(user_catalog)
    /\ packages \in PackageLists
    /\ idx = 1
    /\ pc = (IF packages = <<>> THEN "save" ELSE "user")
    /\ start = m
    /\ hist = <<>>
    /\ ProbeIdle
    /\ ExpandIdle

Next ==
    \/ UserCatalogStage
    \/ BuiltinCatalogStage
    \/ EnvironmentStage
    \/ ReadthedocsStage
    \/ PypiStage
    \/ Unresolved
    \/ SaveCatalog

Spec == Init /\ [][Next]_vars

----------------------------------------------------------------------------
(* _add_index called on its own *)

InitAddIndex ==
    /\ m \in InitialMappings
    /\ log = <<>>
    /\ call = NoCall
    /\ DriverIdle
    /\ LookupIdle
    /\ ExpandIdle

AddIndex ==
    /\ call.n < MaxCalls
    /\ \E name \in {"numpy", "flask"}, addr \in URLs,
          objects_inv \in {None, "numpy.inv"} :
         LET r == _add_index(m, name, addr, objects_inv)
         IN  /\ m' = r.mapping
             /\ log' = log \o r.emitted
             /\ call' = [n |-> call.n + 1, name |-> name, addr |-> addr,
                         objects_inv |-> objects_inv, before |-> m,
                         emitted |-> r.emitted]
    /\ UNCHANGED <<driverVars, lookupVars, expandVars>>

NextAddIndex == AddIndex

SpecAddIndex == InitAddIndex /\ [][NextAddIndex]_vars

----------------------------------------------------------------------------
(* a catalog, the view over it, and the operations on both *)

InitLookup ==
    /\ user_catalog \in Catalogs
    /\ user_lookup = LookupReset(user_catalog)
    /\ snapshot = AllGets(user_lookup)
    /\ got = <<>>
    /\ updates = 0
    /\ op = NoOp
    /\ ExpandIdle
    /\ MappingIdle
    /\ DriverIdle

UpdateFromEnvironment ==
    /\ updates < MaxUpdates
    /\ \E pkg \in PackageNames, name \in ExternalNames,
          fetched \in FetchResults("environment") :
         /\ user_catalog' = update_versions_from_environment(user_catalog, pkg, name, fetched)
         /\ user_lookup' = LookupAfterUpdate(user_lookup, pkg, fetched)
    /\ updates' = updates + 1
    /\ UNCHANGED <<snapshot, got, op, expandVars, mappingVars, driverVars>>

UpdateFromRtd ==
    /\ updates < MaxUpdates
    /\ \E pkg \in PackageNames, name \in ExternalNames,
          fetched \in FetchResults("readthedocs") :
         /\ user_catalog' = update_versions_from_rtd(user_catalog, pkg, name, fetched)
         /\ user_lookup' = LookupAfterUpdate(user_lookup, pkg, fetched)
    /\ updates' = updates + 1
    /\ UNCHANGED <<snapshot, got, op, expandVars, mappingVars, driverVars>>

UpdateFromPypi ==
    /\ updates < MaxUpdates
    /\ \E pkg \in PackageNames, name \in ExternalNames,
          fetched \in FetchResults("pypi") :
         /\ user_catalog' = update_versions_from_pypi(user_catalog, pkg, name, fetched)
         /\ user_lookup' = LookupAfterUpdate(user_lookup, pkg, fetched)
    /\ updates' = updates + 1
    /\ UNCHANGED <<snapshot, got, op, expandVars, mappingVars, driverVars>>

Reset ==
    /\ user_lookup' = LookupReset(user_catalog)
    /\ snapshot' = AllGets(user_lookup')
    /\ UNCHANGED <<user_catalog, got, updates, op, expandVars, mappingVars, driverVars>>

Get ==
    /\ \E pkg \in QueryNames, version \in GetVersions, default \in Defaults :
         got' = [pkg |-> pkg, version |-> version, default |-> default,
                 result |-> LookupGet(user_lookup, pkg, version, default)]
    /\ UNCHANGED <<user_catalog, user_lookup, snapshot, updates, op, expandVars,
                   mappingVars, driverVars>>

NextLookup ==
    \/ UpdateFromEnvironment
    \/ UpdateFromRtd
    \/ UpdateFromPypi
    \/ Reset
    \/ Get

SpecLookup == InitLookup /\ [][NextLookup]_vars

----------------------------------------------------------------------------
(* a catalog and its update operations *)

MaxOps == 1

\* a fetcher that finds nothing, and one that finds the source's versions
Miss(source) == Returns(<<>>)

Hit(source) == Returns(CHOOSE u \in FetchResults(source) : u # <<>>)

Outcome(e, r, p) ==
    [x \in Sources |-> CASE x = "environment" -> e
                         [] x = "readthedocs" -> r
                         [] x = "pypi"        -> p]

\* what the three fetchers do during one operation
Outcomes ==
    LET e == "environment"
        r == "readthedocs"
        p == "pypi"
    IN  {Outcome(Miss(e), Miss(r), Miss(p)),
         Outcome(Hit(e),  Miss(r), Miss(p)),
         Outcome(Miss(e), Hit(r),  Miss(p)),
         Outcome(Miss(e), Miss(r), Hit(p)),
         Outcome(Miss(e), Hit(r),  Hit(p)),
         Outcome(Hit(e),  Hit(r),  Hit(p)),
         Outcome(Raises,  Hit(r),  Hit(p)),
         Outcome(Miss(e), Miss(r), Raises)}

InitCatalog ==
    /\ user_catalog \in CatalogStates
    /\ user_lookup = [_version_map |-> <<>>, _package_map |-> <<>>, shared |-> {}]
    /\ snapshot = <<>>
    /\ got = <<>>
    /\ updates = 0
    /\ op = NoOp
    /\ ExpandIdle
    /\ MappingIdle
    /\ DriverIdle

\* one call of update_versions_from_<source>(pkg, name) whose fetcher does o
SingleUpdate(source, pkg, name, o) ==
    /\ user_catalog' = IF o.raises THEN _ensure_defaults(user_catalog, pkg)
                       ELSE UpdateOne(user_catalog, source, pkg, name, o.urls)
    /\ op' = [name     |-> "update_versions_from",
              source   |-> source,
              pkg      |-> pkg,
              ext      |-> name,
              fetched  |-> o.urls,
              returned |-> IF o.raises THEN None
                           ELSE IF Len(o.urls) > 0 THEN "True" ELSE "False",
              raised   |-> IF o.raises THEN "RequestException" ELSE None,
              queries  |-> <<[source |-> source, pkg |-> pkg,
                              name |-> NameOr(name, pkg)]>>]
    /\ updates' = updates + 1
    /\ UNCHANGED <<user_lookup, snapshot, got, expandVars, mappingVars, driverVars>>

EnvironmentUpdate ==
    /\ updates < MaxOps
    /\ \E pkg \in PackageNames, name \in ExternalNames,
          o \in FetchOutcomes("environment") :
         SingleUpdate("environment", pkg, name, o)

RtdUpdate ==
    /\ updates < MaxOps
    /\ \E pkg \in PackageNames, name \in ExternalNames,
          o \in FetchOutcomes("readthedocs") :
         SingleUpdate("readthedocs", pkg, name, o)

PypiUpdate ==
    /\ updates < MaxOps
    /\ \E pkg \in PackageNames, name \in ExternalNames,
          o \in FetchOutcomes("pypi") :
         SingleUpdate("pypi", pkg, name, o)

UpdateVersions ==
    /\ updates < MaxOps
    /\ \E pkgs \in PkgLists, order \in Orders, names \in NamesArgs,
          keep_going \in BOOLEAN,
          outcome \in Outcomes :
         LET run == update_versions(user_catalog, pkgs, order, names,
                                    keep_going, outcome)
         IN  /\ user_catalog' = run.cat
             /\ op' = [name       |-> "update_versions",
                       pkgs       |-> pkgs,
                       order      |-> order,
                       names      |-> names,
                       keep_going |-> keep_going,
                       outcome    |-> outcome,
                       returned   |-> None,
                       raised     |-> run.raised,
                       queries    |-> run.queries]
    /\ updates' = updates + 1
    /\ UNCHANGED <<user_lookup, snapshot, got, expandVars, mappingVars, driverVars>>

SelfUpdate ==
    /\ updates < MaxOps
    /\ \E outcome \in Outcomes :
         LET run == self_update(user_catalog, outcome)
         IN  /\ user_catalog' = run.cat
             /\ op' = [name     |-> "self_update",
                       outcome  |-> outcome,
                       returned |-> None,
                       raised   |-> run.raised,
                       queries  |-> run.queries]
    /\ updates' = updates + 1
    /\ UNCHANGED <<user_lookup, snapshot, got, expandVars, mappingVars, driverVars>>

NextCatalog ==
    \/ EnvironmentUpdate
    \/ RtdUpdate
    \/ PypiUpdate
    \/ UpdateVersions
    \/ SelfUpdate

SpecCatalog == InitCatalog /\ [][NextCatalog]_vars

----------------------------------------------------------------------------
(* a catalog written to its file several times *)

MaxDumps == 3

\* the values __setitem__ stores
StoredRecords ==
    {EmptyRecord,
     Record(<<Entry("stable", "https://a/")>>, <<>>),
     Record(<<Entry("1.0", "https://b/")>>, <<Entry("pypi", "np")>>)}

InitDump ==
    /\ user_catalog \in {<<>>} \cup {<<Entry("numpy", r)>> : r \in StoredRecords}
    /\ file \in {NoFile,
                 FileWith(DumpedText(<<>>)),
                 FileWith(dumps(<<Entry("flask", EmptyRecord)>>))}
    /\ backup \in {NoFile, FileWith(DumpedText(<<Entry("flask", EmptyRecord)>>))}
    /\ updates = 0
    /\ op = NoOp
    /\ user_lookup = [_version_map |-> <<>>, _package_map |-> <<>>, shared |-> {}]
    /\ snapshot = <<>>
    /\ got = <<>>
    /\ builtin_catalog = <<>>
    /\ builtin_lookup = LookupReset(<<>>)
    /\ auto_intersphinx_catalog \in CatalogPaths
    /\ packages = <<>>
    /\ idx = 0
    /\ pc = "idle"
    /\ start = <<>>
    /\ hist = <<>>
    /\ ExpandIdle
    /\ MappingIdle

\* catalog[key] = value
SetItem ==
    /\ updates < MaxDumps
    /\ \E key \in PackageNames, value \in StoredRecords :
         user_catalog' = DictSet(user_catalog, key, value)
    /\ op' = [name |-> "__setitem__", returned |-> None, queries |-> <<>>]
    /\ updates' = updates + 1
    /\ UNCHANGED <<file, backup, user_lookup, snapshot, got, builtin_catalog,
                   builtin_lookup, auto_intersphinx_catalog, packages, idx, pc,
                   start, hist, expandVars, mappingVars>>

\* catalog.dump(path), the path being auto_intersphinx_catalog here
Dump ==
    /\ updates < MaxDumps
    /\ LET d == dump(user_catalog, auto_intersphinx_catalog, file, backup)
       IN  /\ file' = d.file
           /\ backup' = d.backup
           /\ op' = [name |-> "dump", returned |-> None, queries |-> <<>>,
                     raised |-> d.raised, file |-> file, backup |-> backup]
    /\ updates' = updates + 1
    /\ UNCHANGED <<user_catalog, user_lookup, snapshot, got, builtin_catalog,
                   builtin_lookup, auto_intersphinx_catalog, packages, idx, pc,
                   start, hist, expandVars, mappingVars>>

NextDump ==
    \/ SetItem
    \/ Dump

SpecDump == InitDump /\ [][NextDump]_vars

----------------------------------------------------------------------------
(* _prepare_versions called on its own *)

InitExpand ==
    /\ \E n \in 0..MaxLen :
         \E ks \in [1..n -> Labels], us \in [1..n -> URLs] :
            Distinct(ks) /\ versions = DictOf(ks, us)
    /\ retval = <<>>
    /\ phase = "input"
    /\ LookupIdle
    /\ MappingIdle
    /\ DriverIdle

Prepare ==
    /\ phase = "input"
    /\ retval' = _prepare_versions(versions)
    /\ phase' = "done"
    /\ UNCHANGED <<versions, lookupVars, mappingVars, driverVars>>

NextExpand == Prepare

SpecExpand == InitExpand /\ [][NextExpand]_vars

----------------------------------------------------------------------------
(* _reorder_versions called on its own, then on its own result *)

InitReorder ==
    /\ \E n \in 0..MaxLen :
         \E ks \in [1..n -> Labels], us \in [1..n -> URLs] :
            Distinct(ks) /\ versions = DictOf(ks, us)
    /\ retval = <<>>
    /\ phase = "input"
    /\ LookupIdle
    /\ MappingIdle
    /\ DriverIdle

\* retval = _reorder_versions(versions)
Reorder ==
    /\ phase = "input"
    /\ retval' = _reorder_versions(versions)
    /\ phase' = "reordered"
    /\ UNCHANGED <<versions, lookupVars, mappingVars, driverVars>>

\* the result is the argument of a second call
ReorderAgain ==
    /\ phase = "reordered"
    /\ versions' = retval
    /\ retval' = _reorder_versions(retval)
    /\ phase' = "twice"
    /\ UNCHANGED <<lookupVars, mappingVars, driverVars>>

NextReorder == Reorder \/ ReorderAgain

SpecReorder == InitReorder /\ [][NextReorder]_vars

----------------------------------------------------------------------------
(* docurls_from_environment, docurls_from_rtd, docurls_from_pypi *)

\* what a request of the requests library ends in: a response that is ok, one
\* that is not, or an exception of requests.exceptions
Responses == {"ok", "not_ok", "error"}

\* _ensure_webdir, over the addresses of the model
_ensure_webdir(addr) ==
    CASE addr = "https://c/index.html" -> "https://c/"
      [] addr = "https://c"            -> "https://c/"
      [] OTHER -> addr

\* a Project-URL line of a package's metadata: "label, addr"
ProjectURL(label, addr) == [label |-> label, addr |-> addr]

\* importlib.metadata.metadata(package): not installed (PackageNotFoundError),
\* installed without Project-URL lines, with lines none of which is the
\* documentation's, with the documentation's, and the same without a version
Metadatas ==
    {[found |-> FALSE],
     [found |-> TRUE, version |-> "1.0"],
     [found |-> TRUE, version |-> "1.0",
      project_url |-> <<ProjectURL("Homepage", "https://h/")>>],
     [found |-> TRUE, version |-> "1.0",
      project_url |-> <<ProjectURL("Homepage", "https://h/"),
                        ProjectURL("Documentation", "https://c/index.html")>>],
     [found |-> TRUE,
      project_url |-> <<ProjectURL("documentation", "https://c")>>]}

\* the loop of lines 102-109 over the Project-URL lines; head is what
\* requests.head(addr + "/objects.inv") ends in
RECURSIVE EnvironmentLoop(_, _, _)
EnvironmentLoop(todo, md, head) ==
    IF todo = <<>> THEN Returns(<<>>)
    ELSE IF todo[1].label \in {"documentation", "Documentation"}
    THEN IF head = "error" THEN Raises
         ELSE IF head = "ok"
         THEN Returns(<<Entry(IF "version" \in DOMAIN md THEN md.version ELSE "latest",
                              _ensure_webdir(todo[1].addr))>>)
         ELSE EnvironmentLoop(Tail(todo), md, head)
    ELSE EnvironmentLoop(Tail(todo), md, head)

\* the try block catches PackageNotFoundError only
docurls_from_environment(md, head) ==
    IF ~md.found THEN Returns(<<>>)
    ELSE IF "project_url" \notin DOMAIN md THEN Returns(<<>>)
    ELSE EnvironmentLoop(md.project_url, md, head)

\* the links of class module-item-title of a project's versions page
Link(text, href) == [text |-> text, href |-> href]

Pages ==
    {<<>>,
     <<Link("latest", "https://c/"), Link("stable", "https://d/"),
       Link("1.0", "/projects/numpy/1.0/")>>}

\* k.attrib["href"].startswith("http")
StartsWithHttp(href) == href \in {"https://c/", "https://d/"}

\* {k.text: _ensure_webdir(k.attrib["href"]) for k in ... if ...}
RECURSIVE LinksToDict(_, _)
LinksToDict(acc, links) ==
    IF links = <<>> THEN acc
    ELSE LinksToDict(IF StartsWithHttp(links[1].href)
                     THEN DictSet(acc, links[1].text, _ensure_webdir(links[1].href))
                     ELSE acc,
                     Tail(links))

\* get is what requests.get ends in; RequestException is caught
docurls_from_rtd(get, page) ==
    IF get = "ok" THEN Returns(LinksToDict(<<>>, page)) ELSE Returns(<<>>)

\* the JSON documents of pypi.org: the project_urls and the version of info,
\* and the labels of releases
PypiData(project_urls, version) ==
    [info     |-> [project_urls |-> project_urls, version |-> version],
     releases |-> <<"1.0", "1.2", "devdocs">>]

PypiProjectURLs ==
    {<<Entry("Homepage", "https://h/")>>,
     <<Entry("Homepage", "https://h/"), Entry("Documentation", "https://c")>>}

\* _get_json: the document, or None for a response that is not ok and for a
\* RequestException
NoData == [none |-> TRUE]

_get_json(get, data) == IF get = "ok" THEN [none |-> FALSE, data |-> data] ELSE NoData

\* lines 201-205 and 219-222: so far is the fetcher's state, its versions and
\* whether an exception has left it
PypiProbe(sofar, data, head) ==
    LET urls == data.info.project_urls
        addr == FirstTruthy(urls, <<"Documentation", "documentation">>)
    IN  IF sofar.raises \/ addr = "" THEN sofar
        ELSE IF head = "error" THEN Raises
        ELSE IF head = "ok"
        THEN Returns(DictSet(sofar.urls, data.info.version, _ensure_webdir(addr)))
        ELSE sofar

\* the loop of lines 214-222 over versions_to_probe
RECURSIVE PypiLoop(_, _, _, _, _)
PypiLoop(sofar, todo, project_urls, release_get, head) ==
    IF todo = <<>> \/ sofar.raises THEN sofar
    ELSE LET got_json == _get_json(release_get, PypiData(project_urls, todo[1].v))
         IN  PypiLoop(IF got_json.none THEN sofar
                      ELSE PypiProbe(sofar, got_json.data, head),
                      Tail(todo), project_urls, release_get, head)

\* get and release_get are what the requests of _get_json end in, for the
\* package's document and for a release's; head is what the probes of
\* objects.inv end in
docurls_from_pypi(get, release_get, head, project_urls, max_entries) ==
    LET main == _get_json(get, PypiData(project_urls, "1.2"))
    IN  IF main.none THEN Returns(<<>>)
        ELSE
          LET first       == PypiProbe(Returns(<<>>), main.data, head)
              releases    == SelectSeq(main.data.releases, PEP440_RE_match)
              version_map == BuildVersionMap(<<>>,
                                 [j \in DOMAIN releases |->
                                    [k |-> Version(releases[j]), v |-> releases[j]]])
              sorted      == Reverse(SortEntries({version_map[j] : j \in DOMAIN version_map}))
              versions_to_probe ==
                  IF max_entries >= 0
                  THEN SubSeq(sorted, 1, IF max_entries < Len(sorted)
                                         THEN max_entries ELSE Len(sorted))
                  ELSE sorted
          IN  PypiLoop(first, versions_to_probe, project_urls, release_get, head)

\* the values of max_entries: the main document only, one release, all
MaxEntries == {0, 1, -1}

InitFetch ==
    /\ LookupIdle
    /\ ExpandIdle
    /\ MappingIdle
    /\ DriverIdle

\* what a call of a fetcher leaves: the mapping returned, or the exception
Fetched(name, world, out) ==
    op' = [name     |-> name,
           world    |-> world,
           returned |-> out.urls,
           raised   |-> IF out.raises THEN "RequestException" ELSE None,
           queries  |-> <<>>]

FetchEnvironment ==
    /\ \E md \in Metadatas, head \in Responses :
         Fetched("docurls_from_environment",
                 [md |-> md, head |-> head],
                 docurls_from_environment(md, head))
    /\ UNCHANGED <<user_catalog, user_lookup, snapshot, got, updates,
                   expandVars, mappingVars, driverVars>>

FetchRtd ==
    /\ \E get \in Responses, page \in Pages :
         Fetched("docurls_from_rtd",
                 [get |-> get, page |-> page],
                 docurls_from_rtd(get, page))
    /\ UNCHANGED <<user_catalog, user_lookup, snapshot, got, updates,
                   expandVars, mappingVars, driverVars>>

FetchPypi ==
    /\ \E get \in Responses, release_get \in Responses, head \in Responses,
          project_urls \in PypiProjectURLs, max_entries \in MaxEntries :
         Fetched("docurls_from_pypi",
                 [get |-> get, release_get |-> release_get, head |-> head,
                  project_urls |-> project_urls, max_entries |-> max_entries],
                 docurls_from_pypi(get, release_get, head, project_urls, max_entries))
    /\ UNCHANGED <<user_catalog, user_lookup, snapshot, got, updates,
                   expandVars, mappingVars, driverVars>>

NextFetch == FetchEnvironment \/ FetchRtd \/ FetchPypi

SpecFetch == InitFetch /\ [][NextFetch]_vars

----------------------------------------------------------------------------
(* check_packages._main *)

MaxChecked == 2

\* the options of the command: --user given, --no-builtin, --no-environment,
\* --no-rtd, --no-pypi, --keep-going
CheckArgs ==
    [user : BOOLEAN, no_builtin : BOOLEAN, no_environment : BOOLEAN,
     no_rtd : BOOLEAN, no_pypi : BOOLEAN, keep_going : BOOLEAN]

\* the catalogs --user can name
CheckedUserCatalogs ==
    {<<>>,
     <<Entry("numpy", Record(<<Entry("stable", "https://a/")>>, <<>>))>>,
     <<Entry("flask", [sources |-> <<Entry("environment", "np")>>])>>}

\* a line group printed for the package at position i of args.packages
Printed(line, stage, i, found) ==
    [line |-> line, stage |-> stage, request |-> i, p |-> packages[i],
     versions |-> found]

\* a stage that looked for the package at position i
Consulted(i, stage, found, raised) ==
    [request |-> i, stage |-> stage, found |-> found, raised |-> raised]

\* continue: the next package, or the end of the loop
CheckContinue ==
    /\ idx' = idx + 1
    /\ pc' = IF idx + 1 > Len(packages) THEN "done" ELSE "user"

\* after a stage: "continue" when it found something and --keep-going is not
\* set, and after the last stage; the next stage otherwise
AfterStage(stage, found) ==
    IF (found /\ ~op.args.keep_going) \/ stage = "pypi"
    THEN CheckContinue
    ELSE pc' = NextStage(stage) /\ idx' = idx

\* lines 39-47 and 49-57: "if p in catalog", the two prints, the second of
\* which reads catalog[p]["versions"]
CheckCatalog(stage, cat, given) ==
    LET p == packages[idx]
    IN  IF DictHas(cat, p)
        THEN /\ hist' = Append(hist, Consulted(idx, stage, TRUE,
                                   "versions" \notin DOMAIN DictGet(cat, p)))
             /\ IF "versions" \in DOMAIN DictGet(cat, p)
                THEN /\ log' = Append(log, Printed("Found", stage, idx,
                                                   DictGet(cat, p).versions))
                     /\ AfterStage(stage, TRUE)
                ELSE /\ log' = Append(log, Printed("Found", stage, idx, <<>>))
                     /\ pc' = "raised"
                     /\ idx' = idx
        ELSE /\ hist' = IF given THEN Append(hist, Consulted(idx, stage, FALSE, FALSE))
                        ELSE hist
             /\ log' = log
             /\ AfterStage(stage, FALSE)

CheckUser ==
    /\ pc = "user"
    /\ CheckCatalog("user", user_catalog, op.args.user)
    /\ UNCHANGED <<user_catalog, user_lookup, snapshot, got, updates, op, m, call,
                   expandVars, builtin_catalog, builtin_lookup,
                   auto_intersphinx_catalog, file, backup, packages, start>>

CheckBuiltin ==
    /\ pc = "builtin"
    /\ CheckCatalog("builtin", builtin_catalog, ~op.args.no_builtin)
    /\ UNCHANGED <<user_catalog, user_lookup, snapshot, got, updates, op, m, call,
                   expandVars, builtin_catalog, builtin_lookup,
                   auto_intersphinx_catalog, file, backup, packages, start>>

\* lines 59-82: a fetcher's block, skipped when its --no-* option is set; the
\* PyPI block prints a line before it calls the fetcher
CheckFetcher(source, disabled) ==
    IF disabled
    THEN /\ AfterStage(source, FALSE)
         /\ UNCHANGED <<log, hist>>
    ELSE \E outcome \in FetchOutcomes(source) :
           LET before == IF source = "pypi"
                         THEN <<Printed("Looking up", source, idx, <<>>)>>
                         ELSE <<>>
               found  == outcome.urls # <<>>
           IN  /\ hist' = Append(hist, Consulted(idx, source, found, outcome.raises))
               /\ IF outcome.raises
                  THEN /\ log' = log \o before
                       /\ pc' = "raised"
                       /\ idx' = idx
                  ELSE /\ log' = log \o before \o
                                 (IF found
                                  THEN <<Printed("Found", source, idx, outcome.urls)>>
                                  ELSE <<>>)
                       /\ AfterStage(source, found)

CheckEnvironment ==
    /\ pc = "environment"
    /\ CheckFetcher("environment", op.args.no_environment)
    /\ UNCHANGED <<user_catalog, user_lookup, snapshot, got, updates, op, m, call,
                   expandVars, builtin_catalog, builtin_lookup,
                   auto_intersphinx_catalog, file, backup, packages, start>>

CheckRtd ==
    /\ pc = "readthedocs"
    /\ CheckFetcher("readthedocs", op.args.no_rtd)
    /\ UNCHANGED <<user_catalog, user_lookup, snapshot, got, updates, op, m, call,
                   expandVars, builtin_catalog, builtin_lookup,
                   auto_intersphinx_catalog, file, backup, packages, start>>

CheckPypi ==
    /\ pc = "pypi"
    /\ CheckFetcher("pypi", op.args.no_pypi)
    /\ UNCHANGED <<user_catalog, user_lookup, snapshot, got, updates, op, m, call,
                   expandVars, builtin_catalog, builtin_lookup,
                   auto_intersphinx_catalog, file, backup, packages, start>>

\* lines 26-36: the catalogs are loaded, the loop starts
InitCheck ==
    /\ \E args \in CheckArgs :
         op = [name |-> "check-packages", returned |-> None, queries |-> <<>>,
               args |-> args]
    /\ user_catalog \in (IF op.args.user THEN CheckedUserCatalogs ELSE {<<>>})
    /\ builtin_catalog \in (IF op.args.no_builtin THEN {<<>>} ELSE BuiltinCatalogs)
    /\ \E n \in 1..MaxChecked : packages \in [1..n -> PackageNames]
    /\ idx = 1
    /\ pc = "user"
    /\ hist = <<>>
    /\ user_lookup = [_version_map |-> <<>>, _package_map |-> <<>>, shared |-> {}]
    /\ snapshot = <<>> /\ got = <<>> /\ updates = 0
    /\ builtin_lookup = LookupReset(<<>>)
    /\ auto_intersphinx_catalog = ""
    /\ file = NoFile
    /\ backup = NoFile
    /\ start = <<>>
    /\ MappingIdle
    /\ ExpandIdle

NextCheck ==
    \/ CheckUser
    \/ CheckBuiltin
    \/ CheckEnvironment
    \/ CheckRtd
    \/ CheckPypi

SpecCheck == InitCheck /\ [][NextCheck]_vars

----------------------------------------------------------------------------
(* update_catalog._main *)

MaxArgs == 2

\* the options of the command: --self, --output (empty when not given) and
\* --keep-going
UpdateArgs == [self : BOOLEAN, output : CatalogPaths \cup {""}, keep_going : BOOLEAN]

\* the file --catalog names: missing, or written by dump() or from dumps()
InputFiles ==
    {NoFile,
     FileWith(DumpedText(<<Entry("numpy",
         Record(<<Entry("stable", "https://a/")>>, <<Entry("pypi", "np")>>))>>)),
     FileWith(dumps(<<Entry("flask", Record(<<Entry("1.2.x", "https://b/")>>, <<>>)),
                      Entry("numpy", Record(<<>>, <<>>))>>))}

\* what is at the output path before the command runs
OutputFiles ==
    {NoFile,
     FileWith(DumpedText(<<Entry("flask", Record(<<Entry("latest", "https://b/")>>, <<>>))>>))}

RemoteList == "https://lists/requirements.txt"

LocalList == "requirements.txt"

\* the positional arguments: a package name, a remote list, a local list
PackageArgs == {"numpy", RemoteList, LocalList}

\* pkg.startswith("http")
StartsWithHttpArg(pkg) == pkg = RemoteList

\* os.path.exists(pkg)
PathExists(pkg) == pkg = LocalList

\* the whitespace-separated words of a requirements file
Word(text, name, comment) == [text |-> text, name |-> name, comment |-> comment]

ListContents(pkg) ==
    IF pkg = RemoteList
    THEN <<Word("numpy==1.0", "numpy", FALSE), Word("flask", "flask", FALSE)>>
    ELSE <<Word("#pinned", "#pinned", TRUE), Word("flask==1.0", "flask", FALSE)>>

\* _parse_requirements: the words that do not start with "#", each cut at
\* its first "=" or whitespace
_parse_requirements(contents) ==
    LET lines == SelectSeq(contents, LAMBDA w : ~w.comment)
    IN  [j \in DOMAIN lines |-> lines[j].name]

\* where the loop over args.packages stands at position i
PackagesOrUpdate(i) == IF i > Len(packages) THEN "update" ELSE "packages"

\* lines 59-71: the catalog is loaded if its file exists
InitUpdate ==
    /\ \E args \in UpdateArgs, input \in InputFiles, before \in OutputFiles :
         op = [name |-> "update-catalog", returned |-> None, queries |-> <<>>,
               args |-> args, input |-> input,
               output_before |-> IF args.output = "" THEN NoFile ELSE before,
               package_list |-> <<>>, responses |-> <<>>, updated |-> FALSE,
               stdout |-> <<>>]
    /\ user_catalog = (IF op.input.exists THEN loads(op.input.text) ELSE <<>>)
    /\ log = (IF op.input.exists THEN <<>>
              ELSE <<LogRecord("info", "input catalog does not exist", <<>>, <<>>)>>)
    /\ file = op.output_before
    /\ backup = NoFile
    /\ start = <<>>
    /\ \E n \in 0..MaxArgs : packages \in [1..n -> PackageArgs]
    /\ idx = 1
    /\ pc = "self"
    /\ hist = <<>>
    /\ user_lookup = [_version_map |-> <<>>, _package_map |-> <<>>, shared |-> {}]
    /\ snapshot = <<>> /\ got = <<>> /\ updates = 0
    /\ builtin_catalog = <<>>
    /\ builtin_lookup = LookupReset(<<>>)
    /\ auto_intersphinx_catalog = ""
    /\ m = <<>> /\ call = NoCall
    /\ ExpandIdle

\* lines 73-74
RunSelfUpdate ==
    /\ pc = "self"
    /\ IF op.args.self
       THEN \E outcome \in Outcomes :
              LET run == self_update(user_catalog, outcome)
              IN  /\ user_catalog' = run.cat
                  /\ op' = [op EXCEPT !.queries = op.queries \o run.queries]
                  /\ pc' = IF run.raised = None THEN PackagesOrUpdate(idx) ELSE "raised"
       ELSE /\ pc' = PackagesOrUpdate(idx)
            /\ UNCHANGED <<user_catalog, op>>
    /\ UNCHANGED <<user_lookup, snapshot, got, updates, mappingVars, expandVars,
                   builtin_catalog, builtin_lookup, auto_intersphinx_catalog,
                   file, backup, packages, idx, start, hist>>

\* a remote list that cannot be retrieved is reported and the loop goes on
ReadPackage_GoesOn ==
    /\ pc = "packages"
    /\ LET pkg == packages[idx]
       IN  IF StartsWithHttpArg(pkg)
           THEN \E response \in Responses :
                  /\ op' = [op EXCEPT
                              !.responses = Append(op.responses,
                                                [addr |-> pkg, response |-> response]),
                              !.package_list =
                                  IF response = "ok"
                                  THEN op.package_list \o
                                       _parse_requirements(ListContents(pkg))
                                  ELSE op.package_list]
                  /\ log' = log \o <<LogRecord("info", "retrieving package list",
                                               <<pkg>>, <<>>)>>
                                \o (IF response = "not_ok"
                                    THEN <<LogRecord("error", "could not retrieve",
                                                     <<pkg>>, <<>>)>>
                                    ELSE <<>>)
                  /\ pc' = IF response = "error" THEN "raised"
                           ELSE PackagesOrUpdate(idx + 1)
           ELSE /\ op' = [op EXCEPT !.package_list =
                            IF PathExists(pkg)
                            THEN op.package_list \o _parse_requirements(ListContents(pkg))
                            ELSE Append(op.package_list, pkg)]
                /\ log' = log
                /\ pc' = PackagesOrUpdate(idx + 1)
    /\ idx' = idx + 1
    /\ UNCHANGED <<user_catalog, user_lookup, snapshot, got, updates, m, call,
                   expandVars, builtin_catalog, builtin_lookup,
                   auto_intersphinx_catalog, file, backup, packages, start, hist>>

\* lines 76-90: one argument of the loop; requests.get is called outside any
\* handler of requests' exceptions
ReadPackage ==
    /\ pc = "packages"
    /\ LET pkg == packages[idx]
       IN  IF StartsWithHttpArg(pkg)
           THEN \E response \in Responses :
                  /\ op' = [op EXCEPT
                              !.responses = Append(op.responses,
                                                [addr |-> pkg, response |-> response]),
                              !.package_list =
                                  IF response = "ok"
                                  THEN op.package_list \o
                                       _parse_requirements(ListContents(pkg))
                                  ELSE op.package_list]
                  /\ log' = log \o <<LogRecord("info", "retrieving package list",
                                               <<pkg>>, <<>>)>>
                                \o (IF response = "not_ok"
                                    THEN <<LogRecord("error", "could not retrieve",
                                                     <<pkg>>, <<>>)>>
                                    ELSE <<>>)
                  /\ pc' = CASE response = "ok"     -> PackagesOrUpdate(idx + 1)
                             [] response = "not_ok" -> "exit1"
                             [] response = "error"  -> "raised"
           ELSE /\ op' = [op EXCEPT !.package_list =
                            IF PathExists(pkg)
                            THEN op.package_list \o _parse_requirements(ListContents(pkg))
                            ELSE Append(op.package_list, pkg)]
                /\ log' = log
                /\ pc' = PackagesOrUpdate(idx + 1)
    /\ idx' = idx + 1
    /\ UNCHANGED <<user_catalog, user_lookup, snapshot, got, updates, m, call,
                   expandVars, builtin_catalog, builtin_lookup,
                   auto_intersphinx_catalog, file, backup, packages, start, hist>>

\* lines 92-97
RunUpdateVersions ==
    /\ pc = "update"
    /\ IF op.package_list # <<>>
       THEN \E outcome \in Outcomes :
              LET run == update_versions(user_catalog, op.package_list, DefaultOrder,
                                         <<>>, op.args.keep_going, outcome)
              IN  /\ user_catalog' = run.cat
                  /\ op' = [op EXCEPT !.queries = op.queries \o run.queries,
                                      !.updated = TRUE]
                  /\ pc' = IF run.raised = None THEN "dump" ELSE "raised"
       ELSE /\ pc' = "dump"
            /\ UNCHANGED <<user_catalog, op>>
    /\ UNCHANGED <<user_lookup, snapshot, got, updates, mappingVars, expandVars,
                   builtin_catalog, builtin_lookup, auto_intersphinx_catalog,
                   file, backup, packages, idx, start, hist>>

\* lines 99-100
WriteOutput ==
    /\ pc = "dump"
    /\ IF op.args.output # ""
       THEN LET d == dump(user_catalog, op.args.output, file, backup)
            IN  /\ file' = d.file
                /\ backup' = d.backup
                /\ pc' = IF d.raised = None THEN "print" ELSE "raised"
       ELSE /\ pc' = "print"
            /\ UNCHANGED <<file, backup>>
    /\ UNCHANGED <<user_catalog, user_lookup, snapshot, got, updates, op, mappingVars,
                   expandVars, builtin_catalog, builtin_lookup,
                   auto_intersphinx_catalog, packages, idx, start, hist>>

\* lines 102-106
PrintCatalog ==
    /\ pc = "print"
    /\ op' = IF (op.args.self \/ op.package_list # <<>>) /\ op.args.output = ""
             THEN [op EXCEPT !.stdout = Append(op.stdout, dumps(user_catalog))]
             ELSE op
    /\ pc' = "done"
    /\ UNCHANGED <<user_catalog, user_lookup, snapshot, got, updates, mappingVars,
                   expandVars, builtin_catalog, builtin_lookup,
                   auto_intersphinx_catalog, file, backup, packages, idx, start, hist>>

NextUpdate ==
    \/ RunSelfUpdate
    \/ ReadPackage
    \/ RunUpdateVersions
    \/ WriteOutput
    \/ PrintCatalog

SpecUpdate == InitUpdate /\ [][NextUpdate]_vars

----------------------------------------------------------------------------
(* _prepare_versions: properties *)

\* positions of versions whose label parses
Parseable == {j \in DOMAIN versions : _string2version(versions[j].k) # NoVersion}

\* those among them that are neither a pre-release nor a dev-release
Final == {j \in Parseable : _string2version(versions[j].k).stage = 2}

\* positions of S whose parsed version no other position of S exceeds
Maxima(S) ==
    {j \in S : \A h \in S :
        ~VersionLess(_string2version(versions[j].k), _string2version(versions[h].k))}

\* the last position, in the order of versions, among the maxima of S
LastMaximum(S) == CHOOSE j \in Maxima(S) : \A h \in Maxima(S) : h <= j

\* C7 as stated: with a parseable label, expand(V)["latest"] is the URL of a
\* label with the maximum parsed version, also when V has a "latest" label
C7_LatestIsMaxVersion ==
    (phase = "done" /\ Parseable # {}) =>
        \E j \in Maxima(Parseable) : DictGet(retval, "latest") = versions[j].v

\* C7 amended: with a parseable label, expand(V)["latest"] is V["latest"] when
\* V has a "latest" label, and otherwise the URL of the label with the maximum
\* parsed version (the last such label of V when several parse to it)
C7_LatestKeptOrMaxVersion ==
    (phase = "done" /\ Parseable # {}) =>
        /\ DictHas(retval, "latest")
        /\ DictGet(retval, "latest") =
              IF DictHas(versions, "latest") THEN DictGet(versions, "latest")
              ELSE versions[LastMaximum(Parseable)].v

\* C7 witness: V has a "latest" label whose URL is not that of the maximum version
C7_Witness ==
    /\ phase = "done"
    /\ Parseable # {}
    /\ DictHas(versions, "latest")
    /\ \A j \in Maxima(Parseable) : versions[j].v # DictGet(versions, "latest")
    /\ DictGet(retval, "latest") = DictGet(versions, "latest")

\* C8 as stated: with a parseable label, expand(V)["stable"] is the URL of a
\* label with the maximum final version, and expand(V)["latest"] when V has no
\* final version, also when V has "stable" or "latest" labels
C8_StableIsMaxFinal ==
    (phase = "done" /\ Parseable # {}) =>
        IF Final # {}
        THEN \E j \in Maxima(Final) : DictGet(retval, "stable") = versions[j].v
        ELSE DictGet(retval, "stable") = DictGet(retval, "latest")

\* C8 amended: with a parseable label, expand(V)["stable"] is V["stable"] when
\* V has a "stable" label; otherwise it is the URL of the label with the
\* maximum final version (the last such label of V), and, when V has no final
\* version, the URL of the label with the maximum parsed version
C8_StableKeptOrMaxFinal ==
    (phase = "done" /\ Parseable # {}) =>
        /\ DictHas(retval, "stable")
        /\ DictGet(retval, "stable") =
              IF DictHas(versions, "stable") THEN DictGet(versions, "stable")
              ELSE IF Final # {} THEN versions[LastMaximum(Final)].v
              ELSE versions[LastMaximum(Parseable)].v

\* C8 witness: only pre- and dev-releases, a "latest" label and no "stable"
\* label: "stable" is the maximum version's URL and differs from "latest"
C8_Witness ==
    /\ phase = "done"
    /\ Parseable # {} /\ Final = {}
    /\ DictHas(versions, "latest") /\ ~DictHas(versions, "stable")
    /\ DictGet(retval, "stable") = versions[LastMaximum(Parseable)].v
    /\ DictGet(retval, "stable") # DictGet(retval, "latest")

\* C9: for every V, the empty mapping included, expand(V) has the keys
\* "latest" and "stable"
C9_LatestAndStablePresent ==
    phase = "done" => (DictHas(retval, "latest") /\ DictHas(retval, "stable"))

\* C10: expand(V) maps every label of V to its URL in V
C10_OriginalEntriesKept ==
    phase = "done" =>
        \A j \in DOMAIN versions :
            /\ DictHas(retval, versions[j].k)
            /\ DictGet(retval, versions[j].k) = versions[j].v

\* the URL in V of the first label of order that V has, "" when it has none
FirstPresent(order) ==
    LET hits == {j \in DOMAIN order : DictHas(versions, order[j])}
    IN  IF hits = {} THEN ""
        ELSE DictGet(versions, order[CHOOSE j \in hits : \A h \in hits : j <= h])

\* _prepare_versions ran on a non-empty V none of whose labels parses
NoneParseable == phase = "done" /\ versions # <<>> /\ Parseable = {}

----------------------------------------------------------------------------
(* LookupCatalog: properties *)

\* the external names recorded under the sources of the package at position j
AliasesOf(cat, j) == {cat[j].v.sources[h].v : h \in DOMAIN cat[j].v.sources}

\* an external name of the package at j that no other package claims, as its
\* own name or as one of its external names
Unclaimed(cat, j, alias) ==
    \A h \in DOMAIN cat \ {j} : alias # cat[h].k /\ alias \notin AliasesOf(cat, h)

\* C5: over a view built from the catalog, get(A, v, d) for an external name A
\* of package P returns what get(P, v, d) returns, and does not raise
C5_AliasResolvesToPackage ==
    user_lookup = LookupReset(user_catalog) =>
        \A j \in DOMAIN user_catalog :
            \A alias \in AliasesOf(user_catalog, j) :
                Unclaimed(user_catalog, j, alias) =>
                    \A v \in QueryVersions, d \in Defaults :
                        /\ LookupGet(user_lookup, alias, v, d) # KeyError
                        /\ LookupGet(user_lookup, alias, v, d) =
                             LookupGet(user_lookup, user_catalog[j].k, v, d)

\* C6: until the next reset(), every get(name, version) returns what it
\* returned when the view was built, whatever updates the catalog has seen
C6_ViewIsSnapshot == AllGets(user_lookup) = snapshot

----------------------------------------------------------------------------
(* _add_index: properties *)

\* the last call found its name registered / registered with the same value
CallHadName == DictHas(call.before, call.name)

CallRepeats ==
    CallHadName /\ DictGet(call.before, call.name) = <<call.addr, call.objects_inv>>

Errors(records) == {j \in DOMAIN records : records[j].level = "error"}

\* what C4 says of the call just made
CallKeepsFirst ==
    call.n > 0 =>
        /\ ~CallHadName =>
              /\ DictGet(m, call.name) = <<call.addr, call.objects_inv>>
              /\ call.emitted = <<>>
        /\ CallHadName => DictGet(m, call.name) = DictGet(call.before, call.name)
        /\ (CallHadName /\ ~CallRepeats) =>
              /\ Cardinality(Errors(call.emitted)) = 1
              /\ Len(call.emitted) = 1
              /\ call.emitted[1].msg = "ignoring reset"
        /\ CallRepeats =>
              /\ Errors(call.emitted) = {}
              /\ Len(call.emitted) = 1
              /\ call.emitted[1].level = "info"
              /\ call.emitted[1].msg = "repeated setting"

\* C4: the mapping is first-writer-wins: a registered name keeps its value
\* for ever, entries the caller supplied included; re-adding a name with
\* another value emits one error record, with the same value one
\* informational record and no error
C4_FirstWriterWins ==
    [][ /\ \A j \in DOMAIN m :
              DictHas(m', m[j].k) /\ DictGet(m', m[j].k) = m[j].v
        /\ CallKeepsFirst'
        /\ log' = log \o call'.emitted ]_vars

\* C4 witness: a name re-added with another value: the first value stays
C4_Witness ==
    /\ call.n > 1
    /\ CallHadName /\ ~CallRepeats
    /\ DictGet(m, call.name) # <<call.addr, call.objects_inv>>
    /\ Cardinality(Errors(log)) >= 1

----------------------------------------------------------------------------
(* populate_intersphinx_mapping: properties *)

IsURL(x) == x \notin {None, KeyError, "RequestException"}

StageOrder == <<"user", "builtin", "environment", "readthedocs", "pypi">>

Fetchers == {"environment", "readthedocs", "pypi"}

\* the stages consulted for the request at position i, in order
StagesOf(i) == SelectSeq(hist, LAMBDA e : e.request = i)

\* the request at position i is through: the loop went past it
Finished(i) == i < idx

\* what the built-in view answers to the request at position i
BuiltinAnswer(i) ==
    LookupGet(builtin_lookup, Unpack(packages[i]).p, Unpack(packages[i]).v, None)

\* the request the loop is about to take resolves in both views, differently
ResolvesInBothDifferently ==
    /\ pc = "user"
    /\ LET k == Unpack(packages[idx])
           u == LookupGet(user_lookup, k.p, k.v, None)
       IN  IsURL(u) /\ IsURL(BuiltinAnswer(idx)) /\ u # BuiltinAnswer(idx)

\* C1 as stated: after a request that resolves in the user view and in the
\* built-in view to different URLs, the mapping holds the user catalog's URL
\* for the package
C1_MappingHoldsUserURL ==
    \A i \in DOMAIN packages :
        (/\ Finished(i)
         /\ StagesOf(i) # <<>>
         /\ StagesOf(i)[1].stage = "user"
         /\ IsURL(StagesOf(i)[1].result)
         /\ IsURL(BuiltinAnswer(i))
         /\ BuiltinAnswer(i) # StagesOf(i)[1].result)
        => /\ DictHas(m, Unpack(packages[i]).p)
           /\ DictGet(m, Unpack(packages[i]).p)[1] = StagesOf(i)[1].result

\* C1: for a request that resolves in the user view and in the built-in view
\* to different URLs, the user catalog's URL is the one handed to _add_index:
\* it becomes the package's entry when the mapping had none, and a mapping
\* that already had an entry for the package is left as it was; the user
\* catalog is the request's only stage and the loop goes on, so no Fetcher is
\* invoked for it
C1_UserCatalogWins ==
    [][ ResolvesInBothDifferently =>
          LET k == Unpack(packages[idx])
              u == LookupGet(user_lookup, k.p, k.v, None)
          IN  /\ call'.n = call.n + 1
              /\ call'.name = k.p /\ call'.addr = u /\ call'.objects_inv = None
              /\ ~DictHas(m, k.p) => DictGet(m', k.p) = <<u, None>>
              /\ DictHas(m, k.p) => m' = m
              /\ hist' = Append(hist, [request |-> idx, stage |-> "user", result |-> u])
              /\ idx' = idx + 1
              /\ pc' \in {"user", "save"}
              /\ user_catalog' = user_catalog ]_vars

\* C1 witness: a finished request the user catalog answered with a URL other
\* than the built-in catalog's, now the package's entry
C1_Witness ==
    \E i \in DOMAIN packages :
        /\ Finished(i)
        /\ Len(StagesOf(i)) = 1
        /\ StagesOf(i)[1].stage = "user"
        /\ IsURL(StagesOf(i)[1].result)
        /\ IsURL(BuiltinAnswer(i))
        /\ BuiltinAnswer(i) # StagesOf(i)[1].result
        /\ DictGet(m, Unpack(packages[i]).p) = <<StagesOf(i)[1].result, None>>

\* C2: for every request the stages are consulted in the order user catalog,
\* built-in catalog, environment, readthedocs, PyPI: a stage is consulted only
\* after every earlier one yielded no URL, none after one that yielded a URL,
\* and a finished request either got a URL or went through all five
C2_StagesInOrder ==
    /\ \A a, b \in DOMAIN hist : a < b => hist[a].request <= hist[b].request
    /\ \A i \in DOMAIN packages :
         LET t == StagesOf(i)
         IN  /\ Len(t) <= Len(StageOrder)
             /\ \A j \in DOMAIN t : t[j].stage = StageOrder[j]
             /\ \A j \in DOMAIN t : j < Len(t) => t[j].result = None
             /\ Finished(i) =>
                  /\ t # <<>>
                  /\ \/ IsURL(t[Len(t)].result)
                     \/ Len(t) = Len(StageOrder) /\ t[Len(t)].result = None

\* C2 witness: a request readthedocs answered after three misses; PyPI was
\* not asked
C2_Witness ==
    \E i \in DOMAIN packages :
        /\ Finished(i)
        /\ Len(StagesOf(i)) = 4
        /\ StagesOf(i)[4].stage = "readthedocs"
        /\ IsURL(StagesOf(i)[4].result)

\* every stage missed for the finished request at position i
Unresolvable(i) ==
    /\ Finished(i)
    /\ Len(StagesOf(i)) = Len(StageOrder)
    /\ \A j \in DOMAIN StagesOf(i) : StagesOf(i)[j].result = None

CannotFind(name) == LogRecord("error", "cannot find catalog entry", name, <<>>)

\* C3: a request every stage misses gets exactly one error record naming
\* package@version and no entry in the mapping; the function does not raise,
\* and a run that ends has gone through every package of the list
C3_UnresolvedReportedBatchGoesOn ==
    /\ pc # "raised"
    /\ pc = "done" => idx = Len(packages) + 1
    /\ \A i \in DOMAIN packages :
         Unresolvable(i) =>
            LET name == RequestName(Unpack(packages[i]))
            IN  Cardinality({j \in DOMAIN log : log[j] = CannotFind(name)}) =
                Cardinality({h \in DOMAIN packages :
                    Unresolvable(h) /\ RequestName(Unpack(packages[h])) = name})
    /\ (idx > 1 /\ pc \in {"user", "save", "done"} /\ Unresolvable(idx - 1)) => m = start
    /\ pc = "unresolved" => m = start

----------------------------------------------------------------------------
(* Catalog: properties *)

\* what a record's key holds, an empty dict when the record lacks the key or
\* the catalog lacks the package
FieldOf(cat, pkg, key) ==
    IF DictHas(cat, pkg) /\ key \in DOMAIN DictGet(cat, pkg)
    THEN DictGet(cat, pkg)[key]
    ELSE <<>>

\* this step is one call of update_versions_from_environment / _rtd / _pypi
SingleUpdateStep == updates' = updates + 1 /\ op'.name = "update_versions_from"

\* the step left every package other than pkg as it was, removed none, and
\* added at most pkg
OthersUntouched(pkg) ==
    /\ DictKeys(user_catalog') = DictKeys(user_catalog) \cup {pkg}
    /\ \A j \in DOMAIN user_catalog :
         user_catalog[j].k # pkg => user_catalog'[j] = user_catalog[j]

PosIn(seq, x) ==
    IF \E j \in DOMAIN seq : seq[j] = x
    THEN CHOOSE j \in DOMAIN seq : seq[j] = x
    ELSE 0

\* names has an entry for pkg under source
Named(names, source, pkg) ==
    DictHas(names, source) /\ DictHas(DictGet(names, source), pkg)

\* that entry is the skip marker
Skipped(names, source, pkg) ==
    Named(names, source, pkg) /\ DictGet(DictGet(names, source), pkg) = None

\* the name a fetch for pkg at source is expected under
ExpectedName(names, source, pkg) ==
    IF Named(names, source, pkg) /\ DictGet(DictGet(names, source), pkg) # ""
    THEN DictGet(DictGet(names, source), pkg)
    ELSE pkg

\* the operation asked source about pkg
Queried(pkg, source) ==
    \E j \in DOMAIN op.queries :
        op.queries[j].pkg = pkg /\ op.queries[j].source = source

\* the fetcher of source found data during the operation
Found(source) == ~op.outcome[source].raises /\ op.outcome[source].urls # <<>>

\* the fetches of the operation follow pkgs, and for one package order; none
\* comes after a fetch that raised
QueriesInOrder(pkgs, order) ==
    /\ \A j \in DOMAIN op.queries :
         PosIn(pkgs, op.queries[j].pkg) > 0 /\ PosIn(order, op.queries[j].source) > 0
    /\ \A a, b \in DOMAIN op.queries :
         a < b =>
            /\ ~op.outcome[op.queries[a].source].raises
            /\ \/ PosIn(pkgs, op.queries[a].pkg) < PosIn(pkgs, op.queries[b].pkg)
               \/ /\ op.queries[a].pkg = op.queries[b].pkg
                  /\ PosIn(order, op.queries[a].source) <
                        PosIn(order, op.queries[b].source)

C15_WitnessKeepGoing ==
    /\ op.name = "update_versions"
    /\ op.keep_going
    /\ op.names = <<>>
    /\ Found(op.order[1])
    /\ Len(op.queries) = Len(op.pkgs) * Len(op.order)
    /\ Len(op.pkgs) = 2

\* C16: self_update asks, for every package of the catalog, the three sources
\* in the default order until one finds data, a source without a recorded
\* name for the package included: that one is asked under the package's own
\* name
C16_SelfUpdateTriesEverySource ==
    (op.name = "self_update" /\ op.raised = None) =>
        \A j \in DOMAIN user_catalog, s \in DOMAIN DefaultOrder :
            (\A e \in 1..(s - 1) : ~Found(DefaultOrder[e]))
                => Queried(user_catalog[j].k, DefaultOrder[s])

----------------------------------------------------------------------------
(* populate_intersphinx_mapping: the catalog file and the soft diagnostics *)

\* C17: when the file on disk was written by dump() for the state the user
\* catalog has at the end of the run, the run performs no dump: the file that
\* went to the backup never held the dump of the final catalog, and no
\* record of a save is logged for it
C17_NoRewriteWhenUnchanged ==
    pc = "done" =>
        ~(backup.exists /\ backup.text = DumpedText(user_catalog))

\* every record of the catalog is empty: no fetch found anything
NothingDiscovered ==
    \A j \in DOMAIN user_catalog :
        user_catalog[j].v.versions = <<>> /\ user_catalog[j].v.sources = <<>>

\* C18: in a run with a catalog path, a user catalog that starts absent or
\* empty and fetchers that find nothing, no catalog file is created or
\* written
C18_NothingSavedWhenNothingFound ==
    (pc = "done" /\ auto_intersphinx_catalog # "" /\ NothingDiscovered) =>
        /\ ~backup.exists
        /\ file \in {NoFile, FileWith(DumpedText(<<>>))}

VersionNotIn(catalog, level, k) ==
    LogRecord(level, "version not in " \o catalog \o " catalog", <<k.p, k.v>>, <<>>)

\* C19: when the requested version does not resolve in a catalog, the driver
\* goes on to the next stage; it first emits one diagnostic, a warning for
\* the user catalog and an informational one for the built-in catalog, if
\* and only if the catalog has the package
C19_MissReportedAndGoesOn ==
    [][ LET k == Unpack(packages[idx])
        IN  /\ (pc = "user" /\ LookupGet(user_lookup, k.p, k.v, None) = None) =>
                  /\ pc' = "builtin"
                  /\ idx' = idx
                  /\ log' = log \o (IF k.p \in DictKeys(user_catalog)
                                     THEN <<VersionNotIn("user", "warning", k)>>
                                     ELSE <<>>)
            /\ (pc = "builtin" /\ LookupGet(builtin_lookup, k.p, k.v, None) = None) =>
                  /\ pc' = "environment"
                  /\ idx' = idx
                  /\ log' = log \o (IF k.p \in DictKeys(builtin_catalog)
                                     THEN <<VersionNotIn("builtin", "info", k)>>
                                     ELSE <<>>) ]_vars

\* C19 witness: one request of a version neither catalog has for a package
\* both have: a warning, then an informational record, and the environment
\* stage is next
C19_Witness ==
    /\ pc = "environment"
    /\ idx = 1
    /\ log = <<VersionNotIn("user", "warning", Unpack(packages[1])),
               VersionNotIn("builtin", "info", Unpack(packages[1]))>>

----------------------------------------------------------------------------
(* Catalog.dump: properties *)

\* C20: dump(path) keeps the previous revision: a file that existed at path
\* is, with the content it had before the call, what the backup holds after
\* it, and path holds the serialization of the catalog; when no file existed
\* no backup is created; so after consecutive dumps the backup holds what
\* the target held just before the last one
C20_DumpKeepsPreviousRevision ==
    op.name = "dump" =>
        /\ file = FileWith(DumpedText(user_catalog))
        /\ op.file.exists => backup = op.file
        /\ ~op.file.exists => backup = op.backup

----------------------------------------------------------------------------
(* _reorder_versions: properties *)

\* the labels of a dict, in its order
LabelsOf(d) == [j \in DOMAIN d |-> d[j].k]

IsProtected(label) == label \in {"latest", "main", "master", "stable"}

\* the labels of d that are not protected and parse as a PEP-440 version
ReleaseLabels(d) ==
    {d[j].k : j \in {h \in DOMAIN d :
                        ~IsProtected(d[h].k) /\ Version(d[h].k) # NoVersion}}

\* C22: reorder preserves content: the result of _reorder_versions(V) has
\* the key set of V, each key once, and every label maps to the URL it has
\* in V
C22_ReorderPreservesContent ==
    phase = "reordered" =>
        /\ Len(retval) = Len(versions)
        /\ DictKeys(retval) = DictKeys(versions)
        /\ \A label \in DictKeys(versions) :
              DictGet(retval, label) = DictGet(versions, label)

\* C22 witness: a mapping of a protected label and two labels that parse to
\* one version has been reordered
C22_Witness ==
    /\ phase = "reordered"
    /\ {"stable", "1.0", "1.0.0"} \subseteq DictKeys(versions)
    /\ Len(retval) = 3

\* C23: reorder is idempotent as an ordering: _reorder_versions applied to
\* its own result yields the same sequence of (label, URL) pairs, in the same
\* order, also when several labels parse to the same version
C23_ReorderIdempotent ==
    phase = "twice" => retval = versions

\* C24: the output of _reorder_versions has three consecutive sections: the
\* protected labels that are present in the order latest, main, master,
\* stable; then all remaining PEP-440-parseable labels in strictly
\* decreasing version order; then all other labels in insertion order
C24_ThreeSections ==
    phase = "reordered" =>
        LET out    == LabelsOf(retval)
            prot   == SelectSeq(protected, LAMBDA label : DictHas(versions, label))
            rel    == ReleaseLabels(versions)
            others == SelectSeq(LabelsOf(versions),
                                LAMBDA label : ~IsProtected(label) /\ label \notin rel)
            a      == Len(prot)
            b      == a + Cardinality(rel)
        IN  /\ Len(out) = b + Len(others)
            /\ SubSeq(out, 1, a) = prot
            /\ \A j \in (a + 1)..b : out[j] \in rel
            /\ \A i, j \in (a + 1)..b :
                  i < j => VersionLess(Version(out[j]), Version(out[i]))
            /\ SubSeq(out, b + 1, Len(out)) = others

----------------------------------------------------------------------------
(* Catalog: what the update operations keep *)

\* the keys of a record's versions or sources dict, none when the record
\* lacks it
KeysOf(rec, field) == IF field \in DOMAIN rec THEN DictKeys(rec[field]) ELSE {}

----------------------------------------------------------------------------
(* populate_intersphinx_mapping: what is registered, and null versions *)

\* the URL values of the versions of the packages of a catalog
URLValues(cat) ==
    UNION {{rec.versions[j].v : j \in DOMAIN rec.versions} :
             rec \in {cat[h].v : h \in {g \in DOMAIN cat : "versions" \in DOMAIN cat[g].v}}}

\* C28: every URL the driver registers for a requested package is a
\* non-empty string, and it is a URL value of the versions of a package of
\* the catalog the stage read (the built-in catalog at the second stage, the
\* user catalog at the others), also for a catalog package whose labels are
\* all neither parseable nor one of latest/stable/master/main
C28_RegistersCatalogURL ==
    /\ \A j \in DOMAIN hist : IsURL(hist[j].result) => hist[j].result # ""
    /\ \A j \in DOMAIN m : m[j].v[1] # ""
    /\ (hist # <<>> /\ IsURL(hist[Len(hist)].result)) =>
          hist[Len(hist)].result \in
              (IF hist[Len(hist)].stage = "builtin"
               THEN URLValues(builtin_catalog)
               ELSE URLValues(user_catalog))

\* the request at position i is a pair (package, None)
NullVersion(i) == packages[i].tuple /\ packages[i].v = None

\* C29: a request given as a pair (package, None) is never resolved: every
\* stage consulted for it misses, both catalog lookups included; once the
\* loop is past it all five stages, so all three Fetchers, have been
\* consulted, and the log holds one "cannot find" error naming the package
\* alone per such request; no stage raises for it
C29_NullVersionNeverResolved ==
    \A i \in DOMAIN packages :
        NullVersion(i) =>
            /\ \A j \in DOMAIN StagesOf(i) : StagesOf(i)[j].result = None
            /\ ~(i = idx /\ pc = "raised")
            /\ Finished(i) =>
                  /\ [j \in DOMAIN StagesOf(i) |-> StagesOf(i)[j].stage] = StageOrder
                  /\ Cardinality({j \in DOMAIN log :
                                    log[j] = CannotFind(<<packages[i].p>>)}) =
                     Cardinality({h \in DOMAIN packages :
                                    /\ Finished(h) /\ NullVersion(h)
                                    /\ packages[h].p = packages[i].p})

----------------------------------------------------------------------------
(* the fetchers: properties *)

FetcherNames ==
    {"docurls_from_environment", "docurls_from_rtd", "docurls_from_pypi"}

\* C25: every fetcher fails soft: whatever its requests end in, a non-OK
\* response or an exception of requests, the probe of objects.inv included,
\* the call returns a mapping and no exception leaves it
C25_FetchersFailSoft ==
    op.name \in FetcherNames => op.raised = None

----------------------------------------------------------------------------
(* check_packages._main: properties *)

\* the stage is not switched off: --user names a catalog, or the stage's
\* --no-* option is not set
StageEnabled(stage) ==
    CASE stage = "user"        -> op.args.user
      [] stage = "builtin"     -> ~op.args.no_builtin
      [] stage = "environment" -> ~op.args.no_environment
      [] stage = "readthedocs" -> ~op.args.no_rtd
      [] stage = "pypi"        -> ~op.args.no_pypi

EnabledStages == SelectSeq(StageOrder, StageEnabled)

StageNames(t) == [j \in DOMAIN t |-> t[j].stage]

\* C26: the command does not stop before the last package; a stage that is
\* switched off never reports; for a package the loop is past, the stages
\* that report are those consulted that had data; without --keep-going the
\* enabled stages are consulted in order up to the first that has data, which
\* is the only one to report, and with --keep-going every enabled stage is
\* consulted and each that has data reports
C26_CheckPackagesStages ==
    /\ pc # "raised"
    /\ \A j \in DOMAIN log : log[j].line = "Found" => StageEnabled(log[j].stage)
    /\ \A i \in DOMAIN packages :
         i < idx =>
           LET t       == SelectSeq(hist, LAMBDA e : e.request = i)
               reports == SelectSeq(log, LAMBDA e : e.request = i /\ e.line = "Found")
           IN  /\ StageNames(reports) = StageNames(SelectSeq(t, LAMBDA e : e.found))
               /\ ~op.args.keep_going =>
                    /\ Len(reports) <= 1
                    /\ StageNames(t) = SubSeq(EnabledStages, 1, Len(t))
                    /\ \A j \in DOMAIN t : t[j].found => j = Len(t)
                    /\ Len(reports) = 0 => Len(t) = Len(EnabledStages)
               /\ op.args.keep_going => StageNames(t) = EnabledStages

----------------------------------------------------------------------------
(* update_catalog._main: properties *)

\* the command runs no update: neither --self nor a positional argument
NoUpdateRequested == ~op.args.self /\ packages = <<>>

\* C21: serialization round-trips: loads(dumps(C)) is C for every catalog the
\* command holds, packages, labels, URLs, sources and their order included,
\* and loading a catalog file then dumping it with no update in between
\* (neither --self nor packages) invokes no Fetcher and writes to the output
\* path the catalog content of the input
C21_RoundTrip ==
    /\ loads(dumps(user_catalog)) = user_catalog
    /\ loads(DumpedText(user_catalog)) = user_catalog
    /\ (NoUpdateRequested /\ op.input.exists) =>
          /\ op.queries = <<>>
          /\ user_catalog = loads(op.input.text)
          /\ (op.args.output # "" /\ pc \in {"print", "done", "raised"}) =>
                /\ file.exists
                /\ loads(file.text) = loads(op.input.text)
                /\ file.text.data = op.input.text.data

\* the requests of remote package lists that got a response that is not ok
Refused == {j \in DOMAIN op.responses : op.responses[j].response = "not_ok"}

CouldNotRetrieve(addr) == LogRecord("error", "could not retrieve", <<addr>>, <<>>)

\* C27: once a remote package list could not be retrieved (a response that
\* is not ok), the command has ended with a failure status; the log holds
\* exactly one error record, naming the address; update_versions has not
\* been run on the package list; the output path and its backup are as they
\* were before the command, and nothing was printed
C27_RemoteListFatal ==
    Refused # {} =>
        /\ pc = "exit1"
        /\ Cardinality(Refused) = 1
        /\ \A j \in Refused :
             /\ j = Len(op.responses)
             /\ {h \in DOMAIN log : log[h].level = "error"} = {Len(log)}
             /\ log[Len(log)] = CouldNotRetrieve(op.responses[j].addr)
             /\ packages[idx - 1] = op.responses[j].addr
        /\ ~op.updated
        /\ file = op.output_before
        /\ backup = NoFile
        /\ op.stdout = <<>>

\* C27 witness: the second argument is a remote list that was refused, after
\* a package name, with an output path that has no file: the command is over,
\* the package was not updated and no file was created
C27_Witness ==
    /\ pc = "exit1"
    /\ idx = 3
    /\ op.package_list = <<"numpy">>
    /\ op.args.output # ""
    /\ ~file.exists

====
